---- MODULE Spec2Model ----
(***************************************************************************)
(* A model of the flat triangulation engine of flatsurf: the half-edge     *)
(* mesh with one exact vector per half edge (FlatTriangulation<T>), its    *)
(* in-place mutators flip() and delaunay(), and the points of a surface    *)
(* given by barycentric coordinates (Point<Surface>).  The coordinate ring *)
(* T is modelled by the integers (the instantiation T = mpz_class).        *)
(***************************************************************************)
EXTENDS Integers, Sequences, FiniteSets, TLC

VARIABLES
  heap,        \* the surface objects: "S" the original, "D" its clone
  deformed,    \* the object that surface->clone() returned, "null" before
  track,       \* Tracked(deformed, Deformation(*surface)): domain and codomain
  pc,          \* "idle", or "delaunay" while delaunay() is iterating
  edge,        \* delaunay(): the index of the edge the for loop is at
  isDelaunay,  \* delaunay(): the flag of the do/while loop
  result,      \* outcome of the last call: "none", "ok", "invalid_argument"
  lastCall,    \* the last call: its name, its argument and the surface before
  prevCall,    \* the call before the last one
  calls,       \* number of calls made on deformed
  point,       \* the Point constructed on the surface S
  rotations,   \* the number of rotations normalize() made for point
  face_,       \* the half edge given to point.coordinates()
  coordinates_,\* what point.coordinates(face_) returned
  point_,      \* the Point constructed from face_ and coordinates_
  pointState,  \* how far the construction of point and point_ has come
  arguments,   \* the arguments of the last call of the constructor of Point
  compared,    \* the Point that point is compared with
  combinatorial, \* a FlatTriangulationCombinatorial mutated by its primitives
  mutations,   \* number of primitives applied to combinatorial
  receiver,    \* the surface that operator+ was called on
  shift_,      \* the shift that operator+ was called with
  shifted,     \* what receiver + shift returned
  image,       \* what the returned deformation made of a half edge
  eliminated,  \* what eliminateMarkedPoints() returned
  isomorphic,  \* a call of isomorphism(): its arguments and what it returned
  insertion,   \* a call of insertAt(): its arguments and what it returned
  equivalent,  \* the equivalence classes of a surface and of its relabelings
  constructed, \* a call of FlatTriangulation(combinatorial, vectors) and its outcome
  chosen,    \* the half edge that eliminateMarkedPoints() chose to collapse
  tracking, \* a flip with the calls it made, and the tracked maps after it
  decomposed, \* a call of Vertical::components() and what it returned
  applied, \* an equivalence of a factory with its name and its code
  cells  \* a call of isomorphism() with its kind: the images it skipped, what it returned

surfaceVars == <<heap, deformed, track, pc, edge, isDelaunay, result, lastCall, prevCall, calls>>

pointVars == <<point, rotations, face_, coordinates_, point_, pointState, arguments, compared>>

combinatorialVars == <<combinatorial, mutations>>

shiftVars == <<receiver, shift_, shifted, image, eliminated>>

queryVars == <<isomorphic, insertion, equivalent, constructed, chosen, tracking, decomposed, applied, cells>>

vars == <<surfaceVars, pointVars, combinatorialVars, shiftVars, queryVars>>

----------------------------------------------------------------------------
(* Bounds of the model.                                                    *)

\* The number of calls of flip()/delaunay() explored on one clone.
MaxCalls == 3

\* Barycentric coordinates of points are drawn from 0..MaxCoordinate.
MaxCoordinate == 2

\* The number of combinatorial primitives explored on one triangulation.
MaxMutations == 2

\* The fractions 1/2, 1/4, ... that operator+ tries go down to 2^-MaxHalvings.
MaxHalvings == 5

\* operator+ calls itself at most MaxRecursions deep.
MaxRecursions == 7

\* operator+ gives up when a coordinate, in the unit that the fractions of
\* the shift have led to, gets beyond MaxLength.
MaxLength == 1024

----------------------------------------------------------------------------
(* Vector<T>: exact vectors <<x, y>> over the integers.                    *)

Zero == <<0, 0>>

Plus(v, w) == <<v[1] + w[1], v[2] + w[2]>>

Minus(v) == <<-v[1], -v[2]>>

\* The sign of the cross product v x w decides the turn from v to w.
ccw(v, w) ==
  LET cross == v[1] * w[2] - v[2] * w[1]
  IN  IF cross > 0 THEN "COUNTERCLOCKWISE"
      ELSE IF cross < 0 THEN "CLOCKWISE"
      ELSE "COLLINEAR"

\* Vector<T>::area of a triangle given by its three sides; twice the
\* euclidean area, which keeps the value in the ring T.
triangleArea(u, v, w) == u[1] * v[2] - u[2] * v[1]

----------------------------------------------------------------------------
(* Half edges and permutations.                                            *)

\* The half edges of a surface with n edges: 1, -1, 2, -2, ..., n, -n.
HalfEdgesOf(n) == {h \in (-n)..n : h # 0}

\* HalfEdge::index(): 1 -> 0, -1 -> 1, 2 -> 2, -2 -> 3, ...
index(h) == IF h > 0 THEN 2 * (h - 1) ELSE 2 * ((-h) - 1) + 1

\* The permutation with the given cycles.
PermutationOf(cycles) ==
  LET dom == UNION {{c[i] : i \in 1..Len(c)} : c \in cycles}
  IN  [h \in dom |->
        LET c == CHOOSE c \in cycles : \E i \in 1..Len(c) : c[i] = h
            i == CHOOSE i \in 1..Len(c) : c[i] = h
        IN  c[(i % Len(c)) + 1]]

InverseOf(perm) == [h \in DOMAIN perm |-> CHOOSE g \in DOMAIN perm : perm[g] = h]

\* The cycle of h in the permutation perm.
RECURSIVE Orbit(_, _, _)
Orbit(perm, h, seen) ==
  IF h \in seen THEN seen ELSE Orbit(perm, perm[h], seen \cup {h})

\* OddHalfEdgeMap<Vector<T>>: built from one vector per edge, the vector of
\* the negative half edge is the negative of the vector of the positive one.
OddHalfEdgeMap(n, vecs) ==
  [h \in HalfEdgesOf(n) |-> IF h > 0 THEN vecs[h] ELSE Minus(vecs[-h])]

\* OddHalfEdgeMap::set assigns a half edge and its negative together.
set(vectors, h, v) == [vectors EXCEPT ![h] = v, ![-h] = Minus(v)]

----------------------------------------------------------------------------
(* FlatTriangulationCombinatorial and FlatTriangulation<T>.                *)

\* A surface is built from its vertex cycles (the half edges leaving each
\* vertex in counterclockwise order) and one vector per edge.  The face
\* permutation follows from the vertex permutation.
FlatTriangulation(cycles, vecs) ==
  LET verts == PermutationOf(cycles)
      prev  == InverseOf(verts)
  IN  [vertices |-> verts,
       faces    |-> [h \in DOMAIN verts |-> prev[-h]],
       boundary |-> {},
       vectors  |-> OddHalfEdgeMap(Len(vecs), vecs)]

halfEdges(s) == DOMAIN s.faces

edges(s) == {h \in halfEdges(s) : h > 0}

nextInFace(s, e) == s.faces[e]

previousInFace(s, e) == CHOOSE h \in halfEdges(s) : s.faces[h] = e

nextAtVertex(s, e) == s.vertices[e]

previousAtVertex(s, e) == CHOOSE h \in halfEdges(s) : s.vertices[h] = e

boundary(s, e) == e \in s.boundary

fromHalfEdge(s, e) == s.vectors[e]

\* No surface.
Null == [vertices |-> <<>>, faces |-> <<>>, boundary |-> {}, vectors |-> <<>>]

\* convex with the turn checked at the source of e only.
convexAtSource(s, e, strict) ==
  IF strict
  THEN ccw(fromHalfEdge(s, previousAtVertex(s, e)), fromHalfEdge(s, nextAtVertex(s, e))) = "COUNTERCLOCKWISE"
  ELSE ccw(fromHalfEdge(s, previousAtVertex(s, e)), fromHalfEdge(s, nextAtVertex(s, e))) # "CLOCKWISE"

\* FlatTriangulation<T>::convex
convex(s, e, strict) ==
  IF strict
  THEN /\ ccw(fromHalfEdge(s, previousAtVertex(s, e)), fromHalfEdge(s, nextAtVertex(s, e))) = "COUNTERCLOCKWISE"
       /\ ccw(fromHalfEdge(s, previousAtVertex(s, -e)), fromHalfEdge(s, nextAtVertex(s, -e))) = "COUNTERCLOCKWISE"
  ELSE /\ ccw(fromHalfEdge(s, previousAtVertex(s, e)), fromHalfEdge(s, nextAtVertex(s, e))) # "CLOCKWISE"
       /\ ccw(fromHalfEdge(s, previousAtVertex(s, -e)), fromHalfEdge(s, nextAtVertex(s, -e))) # "CLOCKWISE"

\* ImplementationOf<FlatTriangulation<T>>::check: TRUE when no
\* LIBFLATSURF_CHECK_ARGUMENT of it fails.
check(s) ==
  /\ \A h \in halfEdges(s) :
       boundary(s, h) \/
         /\ fromHalfEdge(s, h) # Zero
         /\ Plus(Plus(fromHalfEdge(s, h), fromHalfEdge(s, nextInFace(s, h))),
                 fromHalfEdge(s, nextInFace(s, nextInFace(s, h)))) = Zero
  /\ \A h \in halfEdges(s) :
       boundary(s, h) \/
         /\ ccw(fromHalfEdge(s, h), fromHalfEdge(s, nextInFace(s, h))) # "COLLINEAR"
         /\ ccw(fromHalfEdge(s, h), fromHalfEdge(s, nextInFace(s, h))) = "COUNTERCLOCKWISE"

\* The combinatorial flip with the vertex permutation left as it was.
combinatorialFlipFacesOnly(s, e) ==
  LET a == nextInFace(s, e)
      b == nextInFace(s, a)
      c == nextInFace(s, -e)
      d == nextInFace(s, c)
  IN  [s EXCEPT
        !.faces = [s.faces EXCEPT ![e] = b, ![b] = c, ![c] = e,
                                  ![-e] = d, ![d] = a, ![a] = -e]]

\* ImplementationOf<FlatTriangulationCombinatorial>::flip: the faces
\* (e a b) and (-e c d) become (e b c) and (-e d a); in the vertex
\* permutation e leaves the sources of e and -e and enters the two
\* opposite corners of the quadrilateral.
combinatorialFlip(s, e) ==
  LET a == nextInFace(s, e)
      b == nextInFace(s, a)
      c == nextInFace(s, -e)
      d == nextInFace(s, c)
  IN  [s EXCEPT
        !.faces = [s.faces EXCEPT ![e] = b, ![b] = c, ![c] = e,
                                  ![-e] = d, ![d] = a, ![a] = -e],
        !.vertices = [s.vertices EXCEPT ![c] = -b, ![a] = -d,
                                        ![d] = e, ![e] = -c,
                                        ![b] = -e, ![-e] = -a]]

\* The precondition of the combinatorial flip, which the geometric layer
\* checks as strict convexity: the faces of e and -e are two faces forming a
\* quadrilateral, and more than three half edges leave each end of e, as the
\* two corners at an end of e are then less than a half turn of its full
\* turns.
flippable(s, e) ==
  LET a == nextInFace(s, e)
      b == nextInFace(s, a)
      c == nextInFace(s, -e)
      d == nextInFace(s, c)
  IN  /\ Cardinality({e, -e, a, b, c, d}) = 6
      /\ Cardinality(Orbit(s.vertices, e, {})) > 3
      /\ Cardinality(Orbit(s.vertices, -e, {})) > 3

\* ImplementationOf<FlatTriangulationCombinatorial>::insertAt: a new vertex
\* in the face (e x y) of e and three new edges a, b, c leaving it, such that
\* -a follows e at the source of e and a, b, c follow each other at the new
\* vertex; the face becomes the faces (e -b a), (x -c b) and (y -a c).
insertAt(s, e) ==
  LET n == CHOOSE m \in halfEdges(s) : \A h \in halfEdges(s) : h <= m
      x == nextInFace(s, e)
      y == nextInFace(s, x)
      a == n + 1
      b == n + 2
      c == n + 3
      inserted == {a, -a, b, -b, c, -c}
  IN  [s EXCEPT
        !.faces = [h \in halfEdges(s) \cup inserted |->
                     CASE h = e  -> -b [] h = -b -> a  [] h = a -> e
                       [] h = x  -> -c [] h = -c -> b  [] h = b -> x
                       [] h = y  -> -a [] h = -a -> c  [] h = c -> y
                       [] OTHER -> s.faces[h]],
        !.vertices = [h \in halfEdges(s) \cup inserted |->
                     CASE h = e  -> -a [] h = -a -> s.vertices[e]
                       [] h = x  -> -b [] h = -b -> s.vertices[x]
                       [] h = y  -> -c [] h = -c -> s.vertices[y]
                       [] h = a  -> b  [] h = b  -> c  [] h = c -> a
                       [] OTHER -> s.vertices[h]]]

\* The precondition of collapse: the two faces (e x y) and (-e u v) next to
\* e have five different edges, so that the corners opposite e are different
\* ones and no face with one or two sides arises, and e joins two different
\* vertices.
collapsible(s, e) ==
  LET x == nextInFace(s, e)
      y == nextInFace(s, x)
      u == nextInFace(s, -e)
      v == nextInFace(s, u)
  IN  /\ Cardinality({e, -e, x, -x, y, -y, u, -u, v, -v}) = 10
      /\ -e \notin Orbit(s.vertices, e, {})

\* ImplementationOf<FlatTriangulationCombinatorial>::collapse: the edge e and
\* its two faces (e x y) and (-e u v) disappear; in each of them the two
\* other sides become one edge, x taking the place of -y and u the place of
\* -v, and the vertices at the two ends of e become one vertex.
collapse(s, e) ==
  LET x == nextInFace(s, e)
      y == nextInFace(s, x)
      u == nextInFace(s, -e)
      v == nextInFace(s, u)
      kept == halfEdges(s) \ {e, -e, y, -y, v, -v}
      place(h) == IF h = x THEN -y ELSE IF h = u THEN -v ELSE h
      identified(h) == IF h = -y THEN x ELSE IF h = -v THEN u ELSE h
      skipped(h) == IF h = y THEN -x ELSE IF h = v THEN -u ELSE h
  IN  [s EXCEPT
        !.faces = [h \in kept |-> identified(s.faces[place(h)])],
        !.vertices = [h \in kept |-> skipped(s.vertices[place(h)])]]

\* updateAfterFlip with the sum taken of the sides of the new face
\* themselves instead of their negatives.
updateAfterFlipUnnegated(vectors, parent, flip) ==
  set(vectors, flip, Plus(vectors[nextInFace(parent, flip)], vectors[previousInFace(parent, flip)]))

\* ImplementationOf<FlatTriangulation<T>>::updateAfterFlip, the flip
\* callback of the tracked vectors; parent is the surface after the
\* combinatorial flip.
updateAfterFlip(vectors, parent, flip) ==
  set(vectors, flip, Plus(vectors[-nextInFace(parent, flip)], vectors[-previousInFace(parent, flip)]))

\* flip with the callback of the vectors run before the combinatorial flip,
\* on the faces as they were.
flipCallbackFirst(s, e) ==
  IF ~convex(s, e, TRUE)
  THEN [surface |-> s, error |-> "invalid_argument", flipped |-> FALSE]
  ELSE LET parent  == combinatorialFlip(s, e)
           flipped == [parent EXCEPT !.vectors = updateAfterFlip(s.vectors, s, e)]
       IN  [surface |-> flipped,
            error   |-> IF \A self \in {flipped} : check(self) THEN "ok" ELSE "invalid_argument",
            flipped |-> TRUE]

\* ImplementationOf<FlatTriangulation<T>>::flip.  The result is the surface
\* after the call and whether the call threw std::invalid_argument.
flip(s, e) ==
  IF ~convex(s, e, TRUE)
  THEN [surface |-> s, error |-> "invalid_argument", flipped |-> FALSE]
  ELSE LET parent  == combinatorialFlip(s, e)
           flipped == [parent EXCEPT !.vectors = updateAfterFlip(s.vectors, parent, e)]
       IN  [surface |-> flipped,
            error   |-> IF \A self \in {flipped} : check(self) THEN "ok" ELSE "invalid_argument",
            flipped |-> TRUE]

\* clone returning the surface itself instead of a new object.
cloneShallow(objects, this) == [heap |-> objects, object |-> this]

\* FlatTriangulation<T>::clone: a new surface object, built from a clone
\* of the combinatorics and the vector of every half edge.  The result is
\* the heap after the call and the object returned.
clone(objects, this) ==
  LET s == objects[this]
      copy == [vertices |-> s.vertices,
               faces    |-> s.faces,
               boundary |-> s.boundary,
               vectors  |-> [h \in halfEdges(s) |-> fromHalfEdge(s, h)]]
  IN  [heap |-> [objects EXCEPT !["D"] = copy], object |-> "D"]

\* FlatTriangulation<T>::operator==
SurfaceEq(lhs, rhs) ==
  /\ lhs.vertices = rhs.vertices
  /\ lhs.faces = rhs.faces
  /\ lhs.boundary = rhs.boundary
  /\ \A h \in halfEdges(lhs) : lhs.vectors[h] = rhs.vectors[h]

\* delaunay(Edge) with a zero determinant classified as NON_DELAUNAY.
delaunayZeroIsNonDelaunay(s, e) ==
  LET ca == fromHalfEdge(s, e)
      cb == fromHalfEdge(s, nextAtVertex(s, e))
      dc == fromHalfEdge(s, -nextInFace(s, -e))
      a  == Plus(dc, ca)
      b  == Plus(dc, cb)
      c  == dc
      det(x00, x01, x02, x10, x11, x12, x20, x21, x22) ==
        x00 * (x11 * x22 - x12 * x21) - x10 * (x01 * x22 - x21 * x02) + x20 * (x01 * x12 - x11 * x02)
      del == det(a[1], a[2], a[1] * a[1] + a[2] * a[2],
                 b[1], b[2], b[1] * b[1] + b[2] * b[2],
                 c[1], c[2], c[1] * c[1] + c[2] * c[2])
  IN  IF del < 0 THEN "DELAUNAY" ELSE "NON_DELAUNAY"

\* delaunay(Edge) with a negative determinant classified as NON_DELAUNAY
\* and a positive one as DELAUNAY.
delaunayNegativeIsNonDelaunay(s, e) ==
  LET ca == fromHalfEdge(s, e)
      cb == fromHalfEdge(s, nextAtVertex(s, e))
      dc == fromHalfEdge(s, -nextInFace(s, -e))
      a  == Plus(dc, ca)
      b  == Plus(dc, cb)
      c  == dc
      det(x00, x01, x02, x10, x11, x12, x20, x21, x22) ==
        x00 * (x11 * x22 - x12 * x21) - x10 * (x01 * x22 - x21 * x02) + x20 * (x01 * x12 - x11 * x02)
      del == det(a[1], a[2], a[1] * a[1] + a[2] * a[2],
                 b[1], b[2], b[1] * b[1] + b[2] * b[2],
                 c[1], c[2], c[1] * c[1] + c[2] * c[2])
  IN  IF del > 0 THEN "DELAUNAY"
      ELSE IF del = 0 THEN "AMBIGUOUS"
      ELSE "NON_DELAUNAY"

\* FlatTriangulation<T>::delaunay(Edge): the sign of the in-circle
\* determinant, in coordinates where d = (0, 0).
delaunay(s, e) ==
  LET ca == fromHalfEdge(s, e)
      cb == fromHalfEdge(s, nextAtVertex(s, e))
      dc == fromHalfEdge(s, -nextInFace(s, -e))
      a  == Plus(dc, ca)
      b  == Plus(dc, cb)
      c  == dc
      det(x00, x01, x02, x10, x11, x12, x20, x21, x22) ==
        x00 * (x11 * x22 - x12 * x21) - x10 * (x01 * x22 - x21 * x02) + x20 * (x01 * x12 - x11 * x02)
      del == det(a[1], a[2], a[1] * a[1] + a[2] * a[2],
                 b[1], b[2], b[1] * b[1] + b[2] * b[2],
                 c[1], c[2], c[1] * c[1] + c[2] * c[2])
  IN  IF del < 0 THEN "DELAUNAY"
      ELSE IF del = 0 THEN "AMBIGUOUS"
      ELSE "NON_DELAUNAY"

\* areaCounted without the comparison with the previous half edge of the
\* face.
areaCountedNextOnly(s) ==
  {e \in halfEdges(s) :
     /\ ~boundary(s, e)
     /\ ~(index(e) > index(nextInFace(s, e)))}

\* The half edges at which FlatTriangulation<T>::area counts a face.
areaCounted(s) ==
  {e \in halfEdges(s) :
     /\ ~boundary(s, e)
     /\ ~(index(e) > index(nextInFace(s, e)))
     /\ ~(index(e) > index(previousInFace(s, e)))}

RECURSIVE Sum(_, _)
Sum(f, dom) ==
  IF dom = {} THEN 0
  ELSE LET x == CHOOSE x \in dom : TRUE
       IN  f[x] + Sum(f, dom \ {x})

\* FlatTriangulation<T>::area
area(s) ==
  Sum([e \in areaCounted(s) |->
         triangleArea(fromHalfEdge(s, e), fromHalfEdge(s, nextInFace(s, e)),
                      fromHalfEdge(s, nextInFace(s, nextInFace(s, e))))],
      areaCounted(s))

\* Tracked<Deformation>: the flip callback of a tracked deformation keeps
\* its domain and makes the surface after the flip its codomain.
trackAfterFlip(deformation, flipped) ==
  [deformation EXCEPT !.codomain = flipped]

----------------------------------------------------------------------------
(* Point<Surface>: a face and barycentric coordinates (a, b, c).           *)

\* FlatTriangulationCombinatorial::face: the sides of the face of a half
\* edge, starting at that half edge.
face(s, f) == <<f, nextInFace(s, f), previousInFace(s, f)>>

\* Vertex::source: a vertex is the set of the half edges leaving it.
source(e, s) == Orbit(s.vertices, e, {})

\* Edge(HalfEdge): an edge is the pair of its half edges.
Edge(e) == {e, -e}

\* Edge::positive and Edge::negative
positive(e) == CHOOSE h \in e : h > 0

negative(e) == CHOOSE h \in e : h < 0

\* std::nullopt; no vertex and no edge is empty.
nullopt == {}

\* rotated with the rotation to the next side made in the wrong direction.
rotatedBackwards(s, p, f) ==
  IF f = p.face THEN [error |-> "ok", abc |-> <<p.a, p.b, p.c>>]
  ELSE IF f = nextInFace(s, p.face) THEN [error |-> "ok", abc |-> <<p.c, p.a, p.b>>]
  ELSE IF f = previousInFace(s, p.face) THEN [error |-> "ok", abc |-> <<p.b, p.c, p.a>>]
  ELSE [error |-> "invalid_argument", abc |-> <<>>]

\* ImplementationOf<Point<Surface>>::rotated.  The result is the array
\* returned, or the error thrown when face is not a side of the face of p.
rotated(s, p, f) ==
  IF f = p.face THEN [error |-> "ok", abc |-> <<p.a, p.b, p.c>>]
  ELSE IF f = nextInFace(s, p.face) THEN [error |-> "ok", abc |-> <<p.b, p.c, p.a>>]
  ELSE IF f = previousInFace(s, p.face) THEN [error |-> "ok", abc |-> <<p.c, p.a, p.b>>]
  ELSE [error |-> "invalid_argument", abc |-> <<>>]

\* The while loop of normalize() with the condition on a forgotten.
RECURSIVE normalizeLoopUntilNoC(_, _, _)
normalizeLoopUntilNoC(s, p, n) ==
  IF p.c # 0
  THEN LET f == nextInFace(s, p.face)
           r == rotated(s, p, f).abc
       IN  normalizeLoopUntilNoC(s, [face |-> f, a |-> r[1], b |-> r[2], c |-> r[3]], n + 1)
  ELSE [point |-> p, error |-> "ok", rotations |-> n]

\* The while loop of normalize(): rotate to the next side of the face until
\* c is zero and a is not.
RECURSIVE normalizeLoop(_, _, _)
normalizeLoop(s, p, n) ==
  IF p.c # 0 \/ p.a = 0
  THEN LET f == nextInFace(s, p.face)
           r == rotated(s, p, f).abc
       IN  normalizeLoop(s, [face |-> f, a |-> r[1], b |-> r[2], c |-> r[3]], n + 1)
  ELSE [point |-> p, error |-> "ok", rotations |-> n]

\* normalize() with the point outside of a face rejected as an argument.
normalizeInvalidArgument(s, p) ==
  IF p.a + p.b + p.c = 0 \/ p.a < 0 \/ p.b < 0 \/ p.c < 0
  THEN [point |-> p, error |-> "invalid_argument", rotations |-> 0]
  ELSE IF p.a > 0 /\ p.b > 0 /\ p.c > 0
  THEN [point |-> p, error |-> "ok", rotations |-> 0]
  ELSE normalizeLoop(s, p, 0)

\* ImplementationOf<Point<Surface>>::normalize
normalize(s, p) ==
  IF p.a + p.b + p.c = 0
  THEN [point |-> p, error |-> "invalid_argument", rotations |-> 0]
  ELSE IF p.a < 0 \/ p.b < 0 \/ p.c < 0
  THEN [point |-> p, error |-> "logic_error", rotations |-> 0]
  ELSE LET q == IF p.a + p.b + p.c < 0
                THEN [p EXCEPT !.a = -p.a, !.b = -p.b, !.c = -p.c]
                ELSE p
       IN  IF q.a > 0 /\ q.b > 0 /\ q.c > 0
           THEN [point |-> q, error |-> "ok", rotations |-> 0]
           ELSE normalizeLoop(s, q, 0)

\* Point<Surface>::Point(surface, face, a, b, c)
Point(s, f, a, b, c) == normalize(s, [face |-> f, a |-> a, b |-> b, c |-> c])

\* Point<Surface>::vertex
vertex(s, p) == IF p.b # 0 \/ p.c # 0 THEN nullopt ELSE source(p.face, s)

\* Point<Surface>::edge
pointEdge(s, p) == IF p.c # 0 THEN nullopt ELSE Edge(p.face)

\* Point<Surface>::on
on(s, p, e) ==
  IF vertex(s, p) # nullopt
  THEN vertex(s, p) = source(positive(e), s) \/ vertex(s, p) = source(negative(e), s)
  ELSE pointEdge(s, p) = e

\* in() without the sides that the point is on: the point is only in the
\* face that its coordinates were stored for.
inOwnFace(s, p, f) == \E i \in 1..3 : p.face = face(s, f)[i]

\* Point<Surface>::in
in(s, p, f) ==
  \/ \E i \in 1..3 : p.face = face(s, f)[i]
  \/ \E i \in 1..3 : on(s, p, Edge(face(s, f)[i]))

\* Point<Surface>::at
at(s, p, v) == vertex(s, p) = v

\* Point<Surface>::coordinates
coordinates(s, p, f) ==
  LET sides == face(s, f)
      asStored(side)   == side = p.face
      acrossEdge(side) == p.face = -side /\ p.c = 0
      atSource(side)   == previousInFace(s, p.face) = -side /\ p.b = 0 /\ p.c = 0
      translated(side) == acrossEdge(side) \/ atSource(side)
      atVertex(side)   == vertex(s, p) = source(side, s)
      first(cond(_))   == CHOOSE i \in 1..3 : cond(sides[i]) /\ \A j \in 1..(i - 1) : ~cond(sides[j])
  IN  IF ~in(s, p, f) THEN [error |-> "invalid_argument", abc |-> <<>>]
      ELSE IF \E i \in 1..3 : asStored(sides[i]) THEN rotated(s, p, f)
      ELSE IF \E i \in 1..3 : translated(sides[i])
      THEN LET side == sides[first(translated)]
           IN  IF acrossEdge(side)
               THEN rotated(s, [face |-> side, a |-> p.b, b |-> p.a, c |-> p.c], f)
               ELSE rotated(s, [face |-> side, a |-> p.a, b |-> p.b, c |-> p.c], f)
      ELSE IF vertex(s, p) = nullopt THEN [error |-> "logic_error", abc |-> <<>>]
      ELSE IF \E i \in 1..3 : atVertex(sides[i])
      THEN rotated(s, [face |-> sides[first(atVertex)], a |-> 1, b |-> 0, c |-> 0], f)
      ELSE [error |-> "logic_error", abc |-> <<>>]

\* Point<Surface>::operator==
PointEq(s, lhs, rhs) ==
  IF ~in(s, rhs, lhs.face) THEN FALSE
  ELSE IF vertex(s, lhs) # nullopt THEN vertex(s, lhs) = vertex(s, rhs)
  ELSE LET abc == coordinates(s, rhs, lhs.face).abc
           lambda == lhs.a + lhs.b + lhs.c
           mu     == abc[1] + abc[2] + abc[3]
       IN  /\ lambda * abc[1] = mu * lhs.a
           /\ lambda * abc[2] = mu * lhs.b
           /\ lambda * abc[3] = mu * lhs.c

----------------------------------------------------------------------------
(* The surfaces the model starts from.                                     *)

\* The square torus: one vertex, faces (1 2 3) and (-1 -2 -3).
Torus ==
  FlatTriangulation({<<1, -3, 2, -1, 3, -2>>}, <<<<1, 0>>, <<0, 1>>, <<-1, -1>>>>)

\* A sheared torus, whose edge 3 is not Delaunay.
ShearedTorus ==
  FlatTriangulation({<<1, -3, 2, -1, 3, -2>>}, <<<<1, 0>>, <<2, 1>>, <<-3, -1>>>>)

\* The square torus of side 3 with a marked point in the face (1 2 3); the
\* three edges at the marked point are not convex.
MarkedTorus ==
  FlatTriangulation({<<1, 4, -3, 2, 5, -1, 3, 6, -2>>, <<-4, -5, -6>>},
                    <<<<3, 0>>, <<0, 3>>, <<-3, -3>>, <<2, 1>>, <<-1, 1>>, <<-1, -2>>>>)

\* The L shaped surface of genus 2 of the test suite (makeL).
L ==
  FlatTriangulation({<<1, 2, 3, 4, 5, -3, 6, 7, 8, -6, -2, 9, -4, -5, -9, -1, -7, -8>>},
                    <<<<1, 0>>, <<1, 1>>, <<0, 1>>, <<-1, 0>>, <<-1, -1>>,
                      <<1, 0>>, <<1, 1>>, <<0, 1>>, <<0, -1>>>>)

Surfaces == {Torus, ShearedTorus, MarkedTorus, L}

NoCall == [op |-> "none", e |-> 0, before |-> Null, error |-> "none"]

NoPoint == [face |-> 0, a |-> 0, b |-> 0, c |-> 0]

\* What operator+ gives when it throws or when the recursion was cut off,
\* and before it was called.
NoDeformation(error) == [error |-> error, scale |-> 1, skipped |-> 0, relations |-> <<>>]

NoImage == [he |-> 0, path |-> <<>>]

\* No call has been made.
NoQuery == [called |-> FALSE]

NoElimination == [error |-> "none", domain |-> Null, codomain |-> Null, sizes |-> <<>>]

----------------------------------------------------------------------------
(* The calls made on the surfaces.                                         *)

Init ==
  /\ \E s \in Surfaces :
       /\ heap = [S |-> s, D |-> Null]
       /\ combinatorial = [vertices |-> s.vertices, faces |-> s.faces, boundary |-> s.boundary]
  /\ mutations = 0
  /\ deformed = "null"
  /\ track = [domain |-> Null, codomain |-> Null]
  /\ pc = "start"
  /\ edge = 0
  /\ isDelaunay = TRUE
  /\ result = "none"
  /\ lastCall = NoCall
  /\ prevCall = NoCall
  /\ calls = 0
  /\ point = NoPoint
  /\ rotations = 0
  /\ face_ = 0
  /\ coordinates_ = [error |-> "none", abc |-> <<>>]
  /\ point_ = NoPoint
  /\ pointState = "none"
  /\ arguments = NoPoint
  /\ compared = NoPoint
  /\ receiver = Null
  /\ shift_ = <<>>
  /\ shifted = NoDeformation("none")
  /\ image = NoImage
  /\ eliminated = NoElimination
  /\ isomorphic = NoQuery
  /\ insertion = NoQuery
  /\ equivalent = NoQuery
  /\ constructed = NoQuery
  /\ chosen = NoQuery
  /\ tracking = NoQuery
  /\ decomposed = NoQuery
  /\ applied = NoQuery
  /\ cells = NoQuery

\* auto deformed = surface->clone();
\* auto track = Tracked(deformed, Deformation(*surface));
Clone ==
  /\ pc = "start"
  /\ LET cloned == clone(heap, "S")
     IN  /\ heap' = cloned.heap
         /\ deformed' = cloned.object
  /\ track' = [domain |-> heap["S"], codomain |-> heap["S"]]
  /\ pc' = "idle"
  /\ UNCHANGED <<edge, isDelaunay, result, lastCall, prevCall, calls>>
  /\ UNCHANGED pointVars
  /\ UNCHANGED combinatorialVars
  /\ UNCHANGED shiftVars
  /\ UNCHANGED queryVars

\* deformed.flip(e)
Flip(e) ==
  /\ pc = "idle"
  /\ calls < MaxCalls
  /\ LET flipping == flip(heap[deformed], e)
     IN  /\ heap' = [heap EXCEPT ![deformed] = flipping.surface]
         /\ track' = IF flipping.flipped THEN trackAfterFlip(track, flipping.surface) ELSE track
         /\ result' = flipping.error
         /\ lastCall' = [op |-> "flip", e |-> e, before |-> heap[deformed], error |-> flipping.error]
  /\ prevCall' = lastCall
  /\ calls' = calls + 1
  /\ UNCHANGED <<deformed, pc, edge, isDelaunay>>
  /\ UNCHANGED pointVars
  /\ UNCHANGED combinatorialVars
  /\ UNCHANGED shiftVars
  /\ UNCHANGED queryVars

\* deformed.delaunay(): the call enters the do/while loop.
Delaunay ==
  /\ pc = "idle"
  /\ calls < MaxCalls
  /\ pc' = "delaunay"
  /\ isDelaunay' = TRUE
  /\ edge' = 1
  /\ result' = "none"
  /\ lastCall' = [op |-> "delaunay", e |-> 0, before |-> heap[deformed], error |-> "none"]
  /\ prevCall' = lastCall
  /\ calls' = calls + 1
  /\ UNCHANGED <<heap, deformed, track>>
  /\ UNCHANGED pointVars
  /\ UNCHANGED combinatorialVars
  /\ UNCHANGED shiftVars
  /\ UNCHANGED queryVars

\* delaunay(): one iteration of the for loop over the edges; after the last
\* edge the do/while loop either starts the next pass or returns.  An
\* exception of flip() leaves the loop and the call.
DelaunayEdge ==
  /\ pc = "delaunay"
  /\ \E s \in {heap[deformed]} :
     \E flips \in {delaunay(s, edge) = "NON_DELAUNAY"} :
     \E flipping \in {IF flips THEN flip(s, edge) ELSE [surface |-> s, error |-> "ok", flipped |-> FALSE]} :
     \E flag \in {isDelaunay /\ ~flips} :
     \E last \in {edge = Cardinality(edges(s))} :
         /\ heap' = [heap EXCEPT ![deformed] = flipping.surface]
         /\ track' = IF flipping.flipped THEN trackAfterFlip(track, flipping.surface) ELSE track
         /\ IF flipping.error # "ok"
            THEN /\ pc' = "idle"
                 /\ result' = flipping.error
                 /\ lastCall' = [lastCall EXCEPT !.error = flipping.error]
                 /\ UNCHANGED <<edge, isDelaunay>>
            ELSE IF ~last
            THEN /\ edge' = edge + 1
                 /\ isDelaunay' = flag
                 /\ UNCHANGED <<pc, result, lastCall>>
            ELSE IF flag
            THEN /\ pc' = "idle"
                 /\ result' = "ok"
                 /\ lastCall' = [lastCall EXCEPT !.error = "ok"]
                 /\ isDelaunay' = flag
                 /\ UNCHANGED edge
            ELSE /\ edge' = 1
                 /\ isDelaunay' = TRUE
                 /\ UNCHANGED <<pc, result, lastCall>>
  /\ UNCHANGED <<deformed, prevCall, calls>>
  /\ UNCHANGED pointVars
  /\ UNCHANGED combinatorialVars
  /\ UNCHANGED shiftVars
  /\ UNCHANGED queryVars

Next ==
  \/ Clone
  \/ \E e \in halfEdges(heap["S"]) : Flip(e)
  \/ Delaunay
  \/ DelaunayEdge

Spec == Init /\ [][Next]_vars

\* delaunay() is an ordinary synchronous call: once entered, its loop runs.
FairSpec == Spec /\ WF_vars(DelaunayEdge)

----------------------------------------------------------------------------
(* Points of the surface S.                                                *)

\* const auto point = Point(*surface, face, a, b, c);
NewPoint(f, a, b, c) ==
  /\ pointState = "none"
  /\ LET made == Point(heap["S"], f, a, b, c)
     IN  /\ point' = IF made.error = "ok" THEN made.point ELSE NoPoint
         /\ rotations' = made.rotations
         /\ pointState' = IF made.error = "ok" THEN "point" ELSE made.error
  /\ arguments' = [face |-> f, a |-> a, b |-> b, c |-> c]
  /\ UNCHANGED <<face_, coordinates_, point_, compared>>
  /\ UNCHANGED surfaceVars
  /\ UNCHANGED combinatorialVars
  /\ UNCHANGED shiftVars
  /\ UNCHANGED queryVars

\* const auto coordinates_ = point.coordinates(face_);
Coordinates(f) ==
  /\ pointState = "point"
  /\ face_' = f
  /\ coordinates_' = coordinates(heap["S"], point, f)
  /\ pointState' = "coordinates"
  /\ UNCHANGED <<point, rotations, point_, arguments, compared>>
  /\ UNCHANGED surfaceVars
  /\ UNCHANGED combinatorialVars
  /\ UNCHANGED shiftVars
  /\ UNCHANGED queryVars

\* const auto point_ = Point(*surface, face_, coordinates_);
Roundtrip ==
  /\ pointState = "coordinates"
  /\ coordinates_.error = "ok"
  /\ LET made == Point(heap["S"], face_, coordinates_.abc[1], coordinates_.abc[2], coordinates_.abc[3])
     IN  /\ point_' = IF made.error = "ok" THEN made.point ELSE NoPoint
         /\ pointState' = IF made.error = "ok" THEN "roundtrip" ELSE made.error
  /\ arguments' = [face |-> face_, a |-> coordinates_.abc[1], b |-> coordinates_.abc[2], c |-> coordinates_.abc[3]]
  /\ UNCHANGED <<point, rotations, face_, coordinates_, compared>>
  /\ UNCHANGED surfaceVars
  /\ UNCHANGED combinatorialVars
  /\ UNCHANGED shiftVars
  /\ UNCHANGED queryVars

\* point == Point(*surface, f, a, b, c) and the comparison the other way
\* around; a constructor that throws leaves nothing to compare with.
Equal(f, a, b, c) ==
  /\ pointState = "point"
  /\ LET made == Point(heap["S"], f, a, b, c)
     IN  /\ made.error = "ok"
         /\ compared' = made.point
  /\ arguments' = [face |-> f, a |-> a, b |-> b, c |-> c]
  /\ pointState' = "compared"
  /\ UNCHANGED <<point, rotations, face_, coordinates_, point_>>
  /\ UNCHANGED surfaceVars
  /\ UNCHANGED combinatorialVars
  /\ UNCHANGED shiftVars
  /\ UNCHANGED queryVars

PointNext ==
  \/ \E f \in halfEdges(heap["S"]) : \E a, b, c \in (-1)..MaxCoordinate : NewPoint(f, a, b, c)
  \/ \E f \in halfEdges(heap["S"]) : Coordinates(f)
  \/ Roundtrip

PointSpec == Init /\ [][PointNext]_vars

\* The points of the surface S compared with each other.
EqualNext ==
  \/ /\ pointState = "none"
     /\ \E f \in halfEdges(heap["S"]) : \E a, b, c \in (-1)..MaxCoordinate : NewPoint(f, a, b, c)
  \/ /\ pointState = "point"
     /\ \E f \in halfEdges(heap["S"]) : \E a, b, c \in 0..MaxCoordinate : Equal(f, a, b, c)

EqualSpec == Init /\ [][EqualNext]_vars

----------------------------------------------------------------------------
(* The primitives of FlatTriangulationCombinatorial.                       *)

\* combinatorial.flip(e)
CombinatorialFlip(e) ==
  /\ mutations < MaxMutations
  /\ flippable(combinatorial, e)
  /\ combinatorial' = combinatorialFlip(combinatorial, e)
  /\ mutations' = mutations + 1
  /\ UNCHANGED surfaceVars
  /\ UNCHANGED pointVars
  /\ UNCHANGED shiftVars
  /\ UNCHANGED queryVars

\* combinatorial.insertAt(e)
InsertAt(e) ==
  /\ mutations < MaxMutations
  /\ combinatorial' = insertAt(combinatorial, e)
  /\ mutations' = mutations + 1
  /\ UNCHANGED surfaceVars
  /\ UNCHANGED pointVars
  /\ UNCHANGED shiftVars
  /\ UNCHANGED queryVars

\* combinatorial.collapse(e)
Collapse(e) ==
  /\ mutations < MaxMutations
  /\ collapsible(combinatorial, e)
  /\ combinatorial' = collapse(combinatorial, e)
  /\ mutations' = mutations + 1
  /\ UNCHANGED surfaceVars
  /\ UNCHANGED pointVars
  /\ UNCHANGED shiftVars
  /\ UNCHANGED queryVars

CombinatorialNext ==
  \/ \E e \in halfEdges(combinatorial) : CombinatorialFlip(e)
  \/ \E e \in halfEdges(combinatorial) : InsertAt(e)
  \/ \E e \in halfEdges(combinatorial) : Collapse(e)

CombinatorialSpec == Init /\ [][CombinatorialNext]_vars

----------------------------------------------------------------------------
(* FlatTriangulation<T>::operator+(shift): the pieces of its analysis.     *)

\* Vector<T>::orientation: the sign of the inner product.
orientation(v, w) ==
  LET dot == v[1] * w[1] + v[2] * w[2]
  IN  IF dot > 0 THEN "SAME"
      ELSE IF dot < 0 THEN "OPPOSITE"
      ELSE "ORTHOGONAL"

\* QuadraticPolynomial<T>(a, b, c): the polynomial a*t^2 + b*t + c.
QuadraticPolynomial(a, b, c) == [a |-> a, b |-> b, c |-> c]

sgn(i) == IF i > 0 THEN 1 ELSE IF i < 0 THEN -1 ELSE 0

\* The sign of x + y * sqrt(d), for d >= 0.
signSurd(x, y, d) ==
  IF y = 0 \/ d = 0 THEN sgn(x)
  ELSE IF x = 0 THEN sgn(y)
  ELSE IF sgn(x) = sgn(y) THEN sgn(x)
  ELSE sgn(x) * sgn(x * x - y * y * d)

\* The sign of x + y * sqrt(d) + z * sqrt(e), for d >= 0 and e >= 0.
signSurd2(x, y, d, z, e) ==
  LET left  == signSurd(x, y, d)
      right == IF e = 0 THEN 0 ELSE sgn(z)
  IN  IF right = 0 THEN left
      ELSE IF left = 0 THEN right
      ELSE IF left = right THEN left
      ELSE left * signSurd(x * x + y * y * d - z * z * e, 2 * x * y, d)

\* QuadraticPolynomial::operator(): the sign of the value at t = n / d is the
\* sign of a*n^2 + b*n*d + c*d^2.
valueAt(det, n, d) == det.a * n * n + det.b * n * d + det.c * d * d

\* The polynomial is positive on all of [0, n / d]: at both ends, and at its
\* minimum when that lies in between.
positiveUntil(det, n, d) ==
  /\ det.c > 0
  /\ valueAt(det, n, d) > 0
  /\ (det.a > 0 /\ det.b < 0 /\ (-det.b) * d < 2 * det.a * n) =>
       det.b * det.b - 4 * det.a * det.c < 0

\* QuadraticPolynomial::positive: no zero for t in [0, 1].
detPositive(det) == positiveUntil(det, 1, 1)

\* The greatest common divisor of two positive integers.
RECURSIVE gcd(_, _)
gcd(i, j) == IF j = 0 THEN i ELSE gcd(j, i % j)

\* QuadraticPolynomial::root: the smallest root in (0, 1] of a polynomial
\* that is positive at 0 and not positive on [0, 1], as (n + m * sqrt(d)) / w
\* with w > 0.
root(det) ==
  IF det.a = 0
  THEN [n |-> det.c \div gcd(det.c, -det.b), m |-> 0, d |-> 0, w |-> (-det.b) \div gcd(det.c, -det.b)]
  ELSE IF det.a > 0
  THEN [n |-> -det.b, m |-> -1, d |-> det.b * det.b - 4 * det.a * det.c, w |-> 2 * det.a]
  ELSE [n |-> det.b, m |-> 1, d |-> det.b * det.b - 4 * det.a * det.c, w |-> -2 * det.a]

\* QuadraticPolynomial::operator<: the root of lhs is earlier than the root
\* of rhs.
rootLess(lhs, rhs) ==
  LET p == root(lhs)
      q == root(rhs)
  IN  signSurd2(p.n * q.w - q.n * p.w, p.m * q.w, p.d, -(q.m * p.w), q.d) < 0

\* collapsingAt with every half edge recorded that is collinear with its
\* shift, wherever the shift takes it.
collapsingAtCollinear(s, shift) ==
  {he \in halfEdges(s) : ccw(fromHalfEdge(s, he), shift[he]) = "COLLINEAR"}

\* The half edges that operator+ finds to become zero at t = 1.
collapsingAt(s, shift) ==
  {he \in halfEdges(s) :
     /\ ccw(fromHalfEdge(s, he), shift[he]) = "COLLINEAR"
     /\ orientation(fromHalfEdge(s, he), Plus(fromHalfEdge(s, he), shift[he])) = "ORTHOGONAL"}

\* Some half edge becomes zero at a time t in (0, 1): operator+ throws.
collapsesEarly(s, shift) ==
  \E he \in halfEdges(s) :
     /\ ccw(fromHalfEdge(s, he), shift[he]) = "COLLINEAR"
     /\ orientation(fromHalfEdge(s, he), Plus(fromHalfEdge(s, he), shift[he])) = "OPPOSITE"

\* The determinant at time t of the half edge he and the half edge he_ that
\* follows it at their vertex.
determinant(s, shift, he) ==
  LET he_ == nextAtVertex(s, he)
      x(h) == fromHalfEdge(s, h)[1]
      y(h) == fromHalfEdge(s, h)[2]
      u(h) == shift[h][1]
      v(h) == shift[h][2]
  IN  QuadraticPolynomial(
        u(he) * v(he_) - u(he_) * v(he),
        u(he) * y(he_) - u(he_) * y(he) + x(he) * v(he_) - x(he_) * v(he),
        x(he) * y(he_) - x(he_) * y(he))

\* vertex_hits_interior: at the root t of det the half edges he and he_ are
\* collinear, and they point in opposite directions when the components of
\* he + t * shift(he) and he_ + t * shift(he_) have opposite signs.
vertex_hits_interior(s, shift, he, det) ==
  LET he_ == nextAtVertex(s, he)
      t == root(det)
      sign(h, i) == signSurd(fromHalfEdge(s, h)[i] * t.w + shift[h][i] * t.n, shift[h][i] * t.m, t.d)
  IN  \/ sign(he, 1) * sign(he_, 1) < 0
      \/ sign(he, 2) * sign(he_, 2) < 0

\* The first part of operator+: the half edges that collapse, and for every
\* vertex that moves onto the interior of the edge opposite to it the flip
\* of that edge with the determinant that tells when.
analysis(s, shift) ==
  LET collapsing == collapsingAt(s, shift)
      hits == {he \in halfEdges(s) :
                 \E det \in {determinant(s, shift, he)} :
                    /\ ~detPositive(det)
                    /\ he \notin collapsing
                    /\ nextAtVertex(s, he) \notin collapsing
                    /\ vertex_hits_interior(s, shift, he, det)}
  IN  [error      |-> IF collapsesEarly(s, shift) THEN "invalid_argument" ELSE "ok",
       collapsing |-> collapsing,
       proposals  |-> {[flip |-> nextInFace(s, he), det |-> determinant(s, shift, he)] : he \in hits}]

\* std::optional<Flip> flip before a flip has been proposed.
NoFlip == [flip |-> 0, det |-> QuadraticPolynomial(0, 0, 0)]

\* keep with every proposed flip taking the place of the one before.
keepLast(flip_, proposed) == proposed

\* if (!flip || proposed.det < flip->det) flip = proposed;
keep(flip_, proposed) ==
  IF flip_ = NoFlip \/ rootLess(proposed.det, flip_.det) THEN proposed ELSE flip_

\* The flips that operator+ may keep: no other one has an earlier root.
\* Which of several flips with the same root it keeps depends on the order
\* of the vertices.
earliest(proposals) ==
  {proposed \in proposals : \A other \in proposals : ~rootLess(other.det, proposed.det)}

\* halvings with an s that stays at 1/2.
halvingsStuck(det) ==
  IF positiveUntil(det, 1, 2) THEN 1 ELSE 0

\* The loop over s = 1/2, 1/4, ...: the exponent k of the first s = 2^-k
\* that is less than the root of det; 0 when there is none up to MaxHalvings.
halvings(det) ==
  IF \E k \in 1..MaxHalvings : positiveUntil(det, 1, 2^k)
  THEN CHOOSE k \in 1..MaxHalvings :
         /\ positiveUntil(det, 1, 2^k)
         /\ \A j \in 1..(k - 1) : ~positiveUntil(det, 1, 2^j)
  ELSE 0

\* while (!collapsing_->empty()) combinatorial.collapse(...): the collapse
\* of the collapsing edges, one after the other; Null when an edge cannot be
\* collapsed.
RECURSIVE collapseAll(_, _)
collapseAll(s, collapsing) ==
  IF collapsing = {} THEN s
  ELSE LET e == CHOOSE he \in collapsing : he > 0 /\ \A other \in collapsing : other > 0 => he <= other
       IN  IF ~collapsible(s, e) THEN Null
           ELSE \* the collapsed surface, bound once
                LET rest(collapsed) == collapseAll(collapsed, collapsing \cap halfEdges(collapsed))
                IN  rest(collapse(s, e))

\* shiftAndCollapse with the vectors left as they were.
shiftAndCollapseUnshifted(s, shift, collapsing) ==
  LET vectors == [he \in halfEdges(s) |-> fromHalfEdge(s, he)]
      combinatorial_ == collapseAll(s, collapsing)
      codomain_ == [vertices |-> combinatorial_.vertices,
                    faces    |-> combinatorial_.faces,
                    boundary |-> combinatorial_.boundary,
                    vectors  |-> [he \in halfEdges(combinatorial_) |-> vectors[he]]]
  IN  IF combinatorial_ = Null THEN [codomain |-> Null, error |-> "logic_error"]
      ELSE [codomain |-> codomain_,
            error    |-> IF \A self \in {codomain_} : check(self) THEN "ok" ELSE "invalid_argument"]

\* The no-flip branch of operator+: shift every vector, collapse, and
\* construct the codomain, which checks it.
shiftAndCollapse(s, shift, collapsing) ==
  LET vectors == [he \in halfEdges(s) |-> Plus(fromHalfEdge(s, he), shift[he])]
      combinatorial_ == collapseAll(s, collapsing)
      codomain_ == [vertices |-> combinatorial_.vertices,
                    faces    |-> combinatorial_.faces,
                    boundary |-> combinatorial_.boundary,
                    vectors  |-> [he \in halfEdges(combinatorial_) |-> vectors[he]]]
  IN  IF combinatorial_ = Null THEN [codomain |-> Null, error |-> "logic_error"]
      ELSE [codomain |-> codomain_,
            error    |-> IF \A self \in {codomain_} : check(self) THEN "ok" ELSE "invalid_argument"]

\* A surface in other units: every vector multiplied by m.
scaled(s, m) ==
  [s EXCEPT !.vectors = [he \in DOMAIN s.vectors |-> <<m * s.vectors[he][1], m * s.vectors[he][2]>>]]

\* The relations of a deformation in other units.
scaledRelations(relations, m) ==
  [i \in 1..Len(relations) |->
     [relations[i] EXCEPT !.domain = scaled(relations[i].domain, m),
                          !.codomain = scaled(relations[i].codomain, m)]]

\* The coordinates of the surface are all within MaxLength.
withinMaxLength(s) ==
  \A he \in halfEdges(s) : \A i \in 1..2 :
    /\ s.vectors[he][i] <= MaxLength
    /\ s.vectors[he][i] >= -MaxLength

\* Deformation::codomain
codomain(relations) == relations[Len(relations)].codomain

\* Deformation::domain
domain(relations) == relations[1].domain

RECURSIVE plus(_, _, _)

\* The branch of operator+ without flip: the vectors are shifted, the edges
\* in collapsing_ collapsed, and the codomain is built from the result.
plusShift(s, shift, collapsing) ==
  CHOOSE sum \in
    {IF made.error # "ok" THEN NoDeformation(made.error)
     ELSE [error |-> "ok", scale |-> 1, skipped |-> 0,
           relations |-> <<[relation |-> "shift", flip |-> 0, domain |-> s, codomain |-> made.codomain]>>] :
       made \in {shiftAndCollapse(s, shift, collapsing)}} : TRUE

\* return (deformation.codomain() + remaining) * deformation, where the flip
\* has been made in the codomain of deformation if the edge was convex and
\* `remaining` has been tracked through the flip.
plusRemaining(fuel, m, flip_, flips, deformation, flipped, tracked) ==
  CHOOSE sum \in
    {IF after.error # "ok" THEN NoDeformation(after.error)
     ELSE [error |-> "ok", scale |-> m * deformation.scale * after.scale,
           skipped |-> deformation.skipped + after.skipped + (IF flips THEN 0 ELSE 1),
           relations |->
             scaledRelations(
               IF flips
               THEN deformation.relations \o
                      <<[relation |-> "flip", flip |-> flip_,
                         domain |-> codomain(deformation.relations), codomain |-> flipped]>>
               ELSE deformation.relations,
               after.scale) \o after.relations] :
       after \in {plus(flipped, tracked, fuel - 1)}} : TRUE

\* plusFlip with the flip made on closer without asking for convexity.
plusFlipUnasked(s, shift, fuel, m, flip_, deformation) ==
  IF deformation.error # "ok" THEN NoDeformation(deformation.error)
  ELSE CHOOSE sum \in
    {IF made.error # "ok" THEN NoDeformation(made.error)
     ELSE plusRemaining(fuel, m, flip_, TRUE, deformation, made.surface,
                        updateAfterFlip(remaining, made.surface, flip_)) :
       made \in {flip(codomain(deformation.relations), flip_)},
       remaining \in {[he \in halfEdges(codomain(deformation.relations)) |->
                        <<(m - 1) * deformation.scale * shift[he][1],
                          (m - 1) * deformation.scale * shift[he][2]>>]}} : TRUE

\* plusFlip with convex asked of closer, the surface that is flipped.
plusFlipConvexCloser(s, shift, fuel, m, flip_, deformation) ==
  IF deformation.error # "ok" THEN NoDeformation(deformation.error)
  ELSE CHOOSE sum \in
    {IF flipping.error # "ok" THEN NoDeformation(flipping.error)
     ELSE plusRemaining(fuel, m, flip_, flipping.flipped, deformation, flipping.surface, flipping.tracked) :
       flipping \in
         {IF flips
          THEN [flipped |-> TRUE, error |-> made.error, surface |-> made.surface,
                tracked |-> IF made.error = "ok" THEN updateAfterFlip(remaining, made.surface, flip_) ELSE remaining]
          ELSE [flipped |-> FALSE, error |-> "ok", surface |-> closer, tracked |-> remaining] :
            flips \in {convex(codomain(deformation.relations), flip_, TRUE)},
            closer \in {codomain(deformation.relations)},
            made \in {flip(codomain(deformation.relations), flip_)},
            remaining \in {[he \in halfEdges(codomain(deformation.relations)) |->
                             <<(m - 1) * deformation.scale * shift[he][1],
                               (m - 1) * deformation.scale * shift[he][2]>>]}}} : TRUE

\* The branch of operator+ with a flip, once *this + partial is there:
\* closer is its codomain, remaining = shift - partial on closer, and
\* if (convex(flip->flip, true)) closer.flip(flip->flip), where convex is
\* asked of *this.
plusFlip(s, shift, fuel, m, flip_, deformation) ==
  IF deformation.error # "ok" THEN NoDeformation(deformation.error)
  ELSE CHOOSE sum \in
    {IF flipping.error # "ok" THEN NoDeformation(flipping.error)
     ELSE plusRemaining(fuel, m, flip_, flipping.flipped, deformation, flipping.surface, flipping.tracked) :
       flipping \in
         {IF flips
          THEN [flipped |-> TRUE, error |-> made.error, surface |-> made.surface,
                tracked |-> IF made.error = "ok" THEN updateAfterFlip(remaining, made.surface, flip_) ELSE remaining]
          ELSE [flipped |-> FALSE, error |-> "ok", surface |-> closer, tracked |-> remaining] :
            flips \in {convex(s, flip_, TRUE)},
            closer \in {codomain(deformation.relations)},
            made \in {flip(codomain(deformation.relations), flip_)},
            remaining \in {[he \in halfEdges(codomain(deformation.relations)) |->
                             <<(m - 1) * deformation.scale * shift[he][1],
                               (m - 1) * deformation.scale * shift[he][2]>>]}}} : TRUE

\* The flip that operator+ makes: the first of the proposed flips whose root
\* is the earliest.
proposedFlip(proposals) ==
  CHOOSE proposed \in earliest(proposals) :
    \A other \in earliest(proposals) : index(proposed.flip) <= index(other.flip)

\* FlatTriangulation<T>::operator+.  The coordinates of the model are
\* integers, so the division of the shift by 2^k is made by taking 1/2^k as
\* the new unit: the result tells in "scale" how many of its units make one
\* unit of s, and its relations are given in these units.  The relations are
\* in the order in which they apply, lhs * rhs is rhs \o lhs; "skipped"
\* counts the flips that were not made because the edge was not convex.
plus(s, shift, fuel) ==
  CHOOSE sum \in
    {IF found.error # "ok" THEN NoDeformation(found.error)
     ELSE IF found.proposals = {} THEN plusShift(s, shift, found.collapsing)
     ELSE CHOOSE sum_ \in
       {IF fuel = 0 \/ k = 0 \/ ~withinMaxLength(scaled(s, 2^k)) THEN NoDeformation("exhausted")
        ELSE CHOOSE sum__ \in
          {plusFlip(s, shift, fuel, 2^k, proposed.flip, deformation) :
             \* *this + partial, with partial = shift / 2^k
             deformation \in {plus(scaled(s, 2^k), shift, fuel - 1)}} : TRUE :
          proposed \in {proposedFlip(found.proposals)},
          k \in {halvings(proposedFlip(found.proposals).det)}} : TRUE :
       found \in {analysis(s, shift)}} : TRUE

----------------------------------------------------------------------------
(* The shifts that operator+ is called with.                               *)

\* OddHalfEdgeMap<R2>(*surface): the shift that moves nothing.
zeroShift(s) == [he \in halfEdges(s) |-> Zero]

\* The vertices of a surface.
vertices(s) == {source(he, s) : he \in halfEdges(s)}

\* The shift that moves the vertex v by w and leaves the other vertices
\* where they are: the half edges leaving v change by -w, those entering it
\* by w.
moved(s, v, w) ==
  [he \in halfEdges(s) |->
     IF he \in v /\ -he \notin v THEN Minus(w)
     ELSE IF -he \in v /\ he \notin v THEN w
     ELSE Zero]

\* The shifts of the faces of a shifted surface add up to zero.
closed(s, shift) ==
  \A he \in halfEdges(s) :
    Plus(Plus(shift[he], shift[nextInFace(s, he)]), shift[nextInFace(s, nextInFace(s, he))]) = Zero

\* The vectors that shifts are made of.
Displacements == {<<x, y>> : x \in {-2, -1, 0, 1, 2}, y \in {-2, -1, 0, 1, 2}}

\* The shifts explored: the moves of one vertex, and the zero shift with two
\* edges set, as far as it is closed.
Shifts(s) ==
  {moved(s, v, w) : v \in vertices(s), w \in Displacements}
    \cup {shift \in {set(set(zeroShift(s), e, w), e_, w_) :
                       e \in edges(s), e_ \in edges(s), w \in Displacements, w_ \in Displacements} :
            closed(s, shift)}

\* The marked torus after the flips of its edges 3, 2 and 6: a surface far
\* from Delaunay, on which a vertex runs into edges that are not convex.
Skewed == flip(flip(flip(MarkedTorus, 3).surface, 2).surface, 6).surface

\* The moves of one vertex by at most one unit in each coordinate.
Nudges(s) == {moved(s, v, w) : v \in vertices(s), w \in {w \in Displacements : w[1] \in {-1, 0, 1} /\ w[2] \in {-1, 0, 1}}}

\* The marked torus after the flips of its edges 1, 2, 4 and 6: a surface
\* on which a vertex runs into an edge that is not convex, on the surface
\* and on the surfaces on the way.
Slanted == flip(flip(flip(flip(MarkedTorus, 1).surface, 2).surface, 4).surface, 6).surface

\* The moves of the vertex at the end of the half edge 4 by one unit and by
\* two units upwards.
Lifts(s) == {moved(s, source(-4, s), <<0, y>>) : y \in 1..2}

\* The surfaces operator+ is called on with their shifts: the surface S with
\* Shifts(S) and, next to the marked torus, Skewed with its nudges and
\* Slanted with its lifts.
Receivers(s) ==
  {[surface |-> s, shift |-> W] : W \in Shifts(s)}
    \cup (IF s = MarkedTorus
          THEN {[surface |-> Skewed, shift |-> W] : W \in Nudges(Skewed)}
                 \cup {[surface |-> Slanted, shift |-> W] : W \in Lifts(Slanted)}
          ELSE {})

\* ShiftDeformationRelation: the half edge he of the domain becomes the same
\* half edge of the codomain, as a path of one saddle connection, and the
\* empty path when the half edge has been collapsed.
shiftImage(relation, he) ==
  IF he \in halfEdges(relation.codomain)
  THEN <<[source |-> he, vector |-> fromHalfEdge(relation.codomain, he)]>>
  ELSE <<>>

\* FlatTriangulation<T>::angle: the number of times the half edges around
\* the vertex turn from the right half plane into the left one.
angle(s, vertex_) ==
  Cardinality({current \in vertex_ :
                 /\ fromHalfEdge(s, current)[1] >= 0
                 /\ fromHalfEdge(s, nextAtVertex(s, current))[1] < 0})

\* this->atVertex(vertex): the half edges leaving the vertex, in the order
\* of nextAtVertex from the one of least index.
RECURSIVE atVertexFrom(_, _, _)
atVertexFrom(s, first, current) ==
  IF nextAtVertex(s, current) = first THEN <<current>>
  ELSE <<current>> \o atVertexFrom(s, first, nextAtVertex(s, current))

atVertex(s, vertex_) ==
  LET first == CHOOSE he \in vertex_ : \A other \in vertex_ : index(he) <= index(other)
  IN  atVertexFrom(s, first, first)

\* this->vertices(), in the order of the least index of their half edges.
RECURSIVE inOrder(_)
inOrder(vs) ==
  IF vs = {} THEN <<>>
  ELSE LET least(v) == CHOOSE he \in v : \A other \in v : index(he) <= index(other)
           vertex_ == CHOOSE v \in vs : \A other \in vs : index(least(v)) <= index(least(other))
       IN  <<vertex_>> \o inOrder(vs \ {vertex_})

\* The squared length v * v of a vector.
length2(v) == v[1] * v[1] + v[2] * v[2]

\* collapseAmong with the longer half edge kept.
collapseAmongLonger(s, outgoings, collapse_) ==
  LET others == {outgoings[i] : i \in {i \in 1..Len(outgoings) : source(-outgoings[i], s) # source(outgoings[i], s)}}
                  \cup (IF collapse_ = 0 THEN {} ELSE {collapse_})
  IN  IF others = {} THEN collapse_
      ELSE CHOOSE longest \in others :
             \A outgoing \in others : length2(fromHalfEdge(s, outgoing)) <= length2(fromHalfEdge(s, longest))

\* The loop over the outgoing half edges of a vertex of angle 1: a half
\* edge to another vertex replaces `collapse` unless `collapse` is strictly
\* shorter; 0 stands for the empty optional.
RECURSIVE collapseAmong(_, _, _)
collapseAmong(s, outgoings, collapse_) ==
  IF outgoings = <<>> THEN collapse_
  ELSE LET outgoing == Head(outgoings)
       IN  collapseAmong(s, Tail(outgoings),
             IF source(-outgoing, s) = source(outgoing, s) THEN collapse_
             ELSE IF collapse_ # 0 /\ length2(fromHalfEdge(s, collapse_)) < length2(fromHalfEdge(s, outgoing))
                  THEN collapse_
                  ELSE outgoing)

\* The loop over the vertices: a vertex of angle 1 is looked at unless it
\* has more outgoing half edges than the source of `collapse`.
RECURSIVE collapseAt(_, _, _)
collapseAt(s, vs, collapse_) ==
  IF vs = <<>> THEN collapse_
  ELSE LET vertex_ == Head(vs)
       IN  collapseAt(s, Tail(vs),
             IF angle(s, vertex_) # 1 THEN collapse_
             ELSE IF collapse_ # 0 /\ Cardinality(vertex_) > Cardinality(source(collapse_, s)) THEN collapse_
                  ELSE collapseAmong(s, atVertex(s, vertex_), collapse_))

\* delta with the marked vertex moving away from its neighbour.
deltaAway(s, collapse_) == moved(s, source(collapse_, s), Minus(fromHalfEdge(s, collapse_)))

\* delta: the marked vertex moves along `collapse` onto its neighbour.
delta(s, collapse_) == moved(s, source(collapse_, s), fromHalfEdge(s, collapse_))

\* FlatTriangulation<T>::eliminateMarkedPoints: the codomain of the
\* deformation it returns, the number of vertices of the surfaces it went
\* through, and "assert" when the number of vertices was not reduced (the
\* recursion ends there, as it does when the assertions are compiled in).
RECURSIVE eliminateMarkedPoints(_)
eliminateMarkedPoints(s) ==
  CHOOSE elimination \in
    {IF collapse_ = 0
     THEN [error |-> "ok", codomain |-> s, sizes |-> <<Cardinality(vertices(s))>>]
     ELSE CHOOSE elimination_ \in
       {IF sum.error # "ok"
        THEN [error |-> sum.error, codomain |-> s, sizes |-> <<Cardinality(vertices(s))>>]
        ELSE IF ~(Cardinality(vertices(codomain(sum.relations))) < Cardinality(vertices(s)))
        THEN [error |-> "assert", codomain |-> codomain(sum.relations),
              sizes |-> <<Cardinality(vertices(s)), Cardinality(vertices(codomain(sum.relations)))>>]
        ELSE CHOOSE elimination__ \in
          {[error |-> rest.error, codomain |-> rest.codomain,
            sizes |-> <<Cardinality(vertices(s))>> \o rest.sizes] :
             rest \in {eliminateMarkedPoints(codomain(sum.relations))}} : TRUE :
          sum \in {plus(s, delta(s, collapse_), MaxRecursions)}} : TRUE :
       collapse_ \in {collapseAt(s, inOrder(vertices(s)), 0)}} : TRUE

\* const auto deformation = *surface + shift;
Shift ==
  /\ shifted.error = "none"
  /\ \E call \in Receivers(heap["S"]) :
       /\ receiver' = call.surface
       /\ shift_' = call.shift
       /\ shifted' = plus(call.surface, call.shift, MaxRecursions)
  /\ UNCHANGED <<image, eliminated>>
  /\ UNCHANGED surfaceVars
  /\ UNCHANGED pointVars
  /\ UNCHANGED combinatorialVars
  /\ UNCHANGED queryVars

\* deformation(SaddleConnection(*surface, he)), for a deformation that is a
\* single shift.
Image(he) ==
  /\ shifted.error = "ok"
  /\ Len(shifted.relations) = 1
  /\ image' = [he |-> he, path |-> shiftImage(shifted.relations[1], he)]
  /\ UNCHANGED <<receiver, shift_, shifted, eliminated>>
  /\ UNCHANGED surfaceVars
  /\ UNCHANGED pointVars
  /\ UNCHANGED combinatorialVars
  /\ UNCHANGED queryVars

\* The surfaces with marked points: the surface S and, for the marked
\* torus, what a flip makes of it.
Marked(s) ==
  {s} \cup (IF s = MarkedTorus THEN {flip(s, e).surface : e \in {1, 2, 3}} ELSE {})

\* const auto elimination = surface->eliminateMarkedPoints();
EliminateMarkedPoints ==
  /\ eliminated.error = "none"
  /\ \E s \in Marked(heap["S"]) : \E elimination \in {eliminateMarkedPoints(s)} :
       eliminated' = [error |-> elimination.error, domain |-> s,
                      codomain |-> elimination.codomain, sizes |-> elimination.sizes]
  /\ UNCHANGED <<receiver, shift_, shifted, image>>
  /\ UNCHANGED surfaceVars
  /\ UNCHANGED pointVars
  /\ UNCHANGED combinatorialVars
  /\ UNCHANGED queryVars

ShiftNext ==
  \/ Shift
  \/ \E he \in halfEdges(receiver) : Image(he)
  \/ EliminateMarkedPoints

ShiftSpec == Init /\ [][ShiftNext]_vars

----------------------------------------------------------------------------
(* FlatTriangulation<T>::isomorphism(other, FACES, filterMatrix,           *)
(* filterHalfEdgeMap).                                                     *)

\* The entries of the matrices that surfaces are compared by are within

\* this->hasBoundary()
hasBoundary(s) == s.boundary # {}

\* LinearDeformationRelation::truediv(x, denominator): x becomes the
\* quotient when the division is exact.
truediv(x, denominator) ==
  LET quotient == sgn(x) * sgn(denominator) * ((sgn(x) * x) \div (sgn(denominator) * denominator))
  IN  [exact |-> quotient * denominator = x, quotient |-> quotient]

\* nextInCell, for ISOMORPHISM::FACES, where no half edge is ignored.
nextInCell(s, e) == previousAtVertex(s, -e)

\* nextInImageCell without regard to sgn.
nextInImageCellPreserving(other, sgn_, e) == previousAtVertex(other, -e)

\* nextInImageCell
nextInImageCell(other, sgn_, e) ==
  IF sgn_ = 1 THEN previousAtVertex(other, -e) ELSE nextAtVertex(other, -e)

\* The matrix (a b c d) that sends v to v_ and w to w_, when it is over T.
matrixOf(v, w, v_, w_) ==
  LET denominator == v[1] * w[2] - v[2] * w[1]
      a == truediv(v_[1] * w[2] - v[2] * w_[1], denominator)
      b == truediv(v[1] * w_[1] - v_[1] * w[1], denominator)
      c == truediv(v_[2] * w[2] - v[2] * w_[2], denominator)
      d == truediv(v[1] * w_[2] - v_[2] * w[1], denominator)
  IN  [exact |-> a.exact /\ b.exact /\ c.exact /\ d.exact,
       a |-> a.quotient, b |-> b.quotient, c |-> c.quotient, d |-> d.quotient]

\* The filters on matrices that isomorphism() is called with.
filterMatrix(filter, a, b, c, d) ==
  IF filter = "identity" THEN a = 1 /\ b = 0 /\ c = 0 /\ d = 1
  ELSE IF filter = "rotation" THEN a = d /\ b = -c /\ a * d - b * c = 1
  ELSE IF filter = "unimodular" THEN a * d - b * c \in {1, -1}
  ELSE TRUE

\* match(from, to): the depth first search through the faces.  try holds
\* what the lambda captures: the surfaces, sgn, the matrix and the pairs
\* that filterHalfEdgeMap rejects; 0 is HalfEdge().
RECURSIVE match(_, _, _, _)
match(try, from, to, isomorphism_) ==
  IF isomorphism_[from] # 0
  THEN [matched |-> isomorphism_[from] = to, isomorphism |-> isomorphism_]
  ELSE IF <<from, to>> \in try.rejected
  THEN [matched |-> FALSE, isomorphism |-> isomorphism_]
  ELSE IF try.a * fromHalfEdge(try.this, from)[1] + try.b * fromHalfEdge(try.this, from)[2]
            # fromHalfEdge(try.other, to)[1]
  THEN [matched |-> FALSE, isomorphism |-> isomorphism_]
  ELSE IF try.c * fromHalfEdge(try.this, from)[1] + try.d * fromHalfEdge(try.this, from)[2]
            # fromHalfEdge(try.other, to)[2]
  THEN [matched |-> FALSE, isomorphism |-> isomorphism_]
  ELSE CHOOSE matching \in
    {IF ~opposite.matched THEN opposite
     ELSE match(try, nextInCell(try.this, from), nextInImageCell(try.other, try.sgn, to),
                opposite.isomorphism) :
       opposite \in {match(try, -from, -to, [isomorphism_ EXCEPT ![from] = to])}} : TRUE

\* The body of the loops over image and sgn: the matrix, its checks and
\* the search.
matchFrom(s, other, filter, rejected, preimage, image_, sgn_) ==
  CHOOSE attempt \in
    {IF ~m.exact THEN [found |-> FALSE]
     ELSE IF (sgn_ = 1) # (m.a * m.d > m.b * m.c) THEN [found |-> FALSE]
     ELSE IF ~filterMatrix(filter, m.a, m.b, m.c, m.d) THEN [found |-> FALSE]
     ELSE CHOOSE attempt_ \in
       {IF matching.matched
        THEN [found |-> TRUE, sgn |-> sgn_, a |-> m.a, b |-> m.b, c |-> m.c, d |-> m.d,
              isomorphism |-> matching.isomorphism]
        ELSE [found |-> FALSE] :
          matching \in
            {match([this |-> s, other |-> other, sgn |-> sgn_, rejected |-> rejected,
                    a |-> m.a, b |-> m.b, c |-> m.c, d |-> m.d],
                   preimage, image_, [he \in halfEdges(s) |-> 0])}} : TRUE :
       m \in {matrixOf(fromHalfEdge(s, preimage), fromHalfEdge(s, nextInCell(s, preimage)),
                       fromHalfEdge(other, image_),
                       fromHalfEdge(other, nextInImageCell(other, sgn_, image_)))}} : TRUE

\* FlatTriangulation<T>::isomorphism for ISOMORPHISM::FACES: the first
\* image and sgn, in the order of the loops, for which the search succeeds.
isomorphism(s, other, filter, rejected) ==
  IF hasBoundary(s) # hasBoundary(other) THEN [error |-> "ok", found |-> FALSE]
  ELSE IF Cardinality(halfEdges(s)) # Cardinality(halfEdges(other)) THEN [error |-> "ok", found |-> FALSE]
  ELSE IF hasBoundary(s) THEN [error |-> "logic_error", found |-> FALSE]
  ELSE CHOOSE deformation \in
    {IF matches = {} THEN [error |-> "ok", found |-> FALSE]
     ELSE [error |-> "ok"] @@
          (CHOOSE first \in matches :
             \A later \in matches :
               2 * index(first.isomorphism[1]) - first.sgn <= 2 * index(later.isomorphism[1]) - later.sgn) :
       matches \in
         {{attempt \in {matchFrom(s, other, filter, rejected, 1, image_, sgn_) :
                          image_ \in halfEdges(other), sgn_ \in {1, -1}} : attempt.found}}} : TRUE

\* The codomain of `linear`: the surface with the matrix applied to its
\* vectors and, for a matrix of negative determinant, with the faces
\* (f0 f1 f2) turned into (-f1 -f0 -f2).
linear(s, a, b, c, d) ==
  [vertices |-> IF a * d > b * c THEN s.vertices ELSE [x \in halfEdges(s) |-> nextInFace(s, -x)],
   faces    |-> IF a * d > b * c THEN s.faces
                ELSE [x \in halfEdges(s) |-> -nextInFace(s, nextInFace(s, -x))],
   boundary |-> s.boundary,
   vectors  |-> [x \in halfEdges(s) |->
                   <<fromHalfEdge(s, x)[1] * a + fromHalfEdge(s, x)[2] * b,
                     fromHalfEdge(s, x)[1] * c + fromHalfEdge(s, x)[2] * d>>]]

\* The surface with its half edges renamed by the permutation pi of the
\* half edges, pi(-x) = -pi(x).
relabel(s, pi) ==
  LET back == [y \in halfEdges(s) |-> CHOOSE x \in halfEdges(s) : pi[x] = y]
  IN  [vertices |-> [y \in halfEdges(s) |-> pi[s.vertices[back[y]]]],
       faces    |-> [y \in halfEdges(s) |-> pi[s.faces[back[y]]]],
       boundary |-> {pi[x] : x \in s.boundary},
       vectors  |-> [y \in halfEdges(s) |-> s.vectors[back[y]]]]

\* The renamings explored: the edges shifted cyclically by k, with all the
\* half edges negated or not.
Relabelings(s) ==
  LET n == Cardinality(edges(s))
  IN  {[x \in halfEdges(s) |-> negate * sgn(x) * ((((sgn(x) * x) - 1 + k) % n) + 1)] :
         k \in 0..(n - 1), negate \in {1, -1}}

\* The surfaces that a surface is compared with: the surface and what a
\* flip makes of it, under a rotation, a reflection, a shear, a scaling,
\* renamed; and the surfaces of the test suite.  The L is only compared
\* with the latter.
Others(s) ==
  Surfaces \cup
    (IF s = L THEN {}
     ELSE {relabel(linear(x, m[1], m[2], m[3], m[4]), pi) :
             x \in {s} \cup {flip(s, e).surface : e \in {e \in edges(s) : flip(s, e).error = "ok"}},
             m \in {<<1, 0, 0, 1>>, <<0, -1, 1, 0>>, <<1, 0, 0, -1>>, <<1, 1, 0, 1>>, <<2, 0, 0, 2>>},
             pi \in Relabelings(s)})

\* The receivers of isomorphism(): the surface and, for the marked torus,
\* what two flips make of it, a surface that is not its own mirror image.
Domains(s) ==
  {s} \cup (IF s = MarkedTorus THEN {flip(flip(s, 3).surface, 2).surface} ELSE {})

\* surface->isomorphism(other, ISOMORPHISM::FACES, filterMatrix, filterHalfEdgeMap)
Isomorphism ==
  /\ ~isomorphic.called
  /\ \E this \in Domains(heap["S"]) :
     \E other \in Others(this) :
     \E filter \in {"any", "identity", "rotation", "unimodular"} :
     \E rejected \in {{}, {<<1, 1>>}, {<<2, 2>>, <<2, -2>>}, {<<1, y>> : y \in halfEdges(other)}} :
       isomorphic' = [called |-> TRUE, this |-> this, other |-> other,
                      filterMatrix |-> filter, rejected |-> rejected,
                      deformation |-> isomorphism(this, other, filter, rejected)]
  /\ UNCHANGED <<insertion, equivalent, constructed, chosen, tracking, decomposed, applied, cells>>
  /\ UNCHANGED surfaceVars
  /\ UNCHANGED pointVars
  /\ UNCHANGED combinatorialVars
  /\ UNCHANGED shiftVars

IsomorphismNext == Isomorphism

IsomorphismSpec == Init /\ [][IsomorphismNext]_vars

----------------------------------------------------------------------------
(* FlatTriangulation<T>::insertAt(nextTo, vector)                          *)

\* The flips that insertAt() may nest.
MaxFlips == 8

\* The coordinates of the vectors that are inserted.
MaxInsert == 3

\* FlatTriangulation<T>::inSector
inSector(s, sector, v) ==
  /\ ccw(fromHalfEdge(s, sector), v) # "CLOCKWISE"
  /\ ccw(fromHalfEdge(s, nextAtVertex(s, sector)), v) = "CLOCKWISE"

\* check_orientation that throws nothing.
check_orientationNoThrow(saddle_connection, v) == "ok"

\* check_orientation: what it throws, or "ok".
check_orientation(saddle_connection, v) ==
  LET orient == orientation(<<saddle_connection[1] - v[1], saddle_connection[2] - v[2]>>, v)
  IN  IF orient = "OPPOSITE" THEN "invalid_argument"
      ELSE IF orient = "ORTHOGONAL" THEN "logic_error"
      ELSE "ok"

\* canFlip(e) in the lambda flip(e).
canFlip(s, nextTo, e) ==
  /\ e # nextTo
  /\ e # -nextTo
  /\ e # nextAtVertex(s, nextTo)
  /\ e # -nextAtVertex(s, nextTo)
  /\ ccw(fromHalfEdge(s, previousAtVertex(s, e)), fromHalfEdge(s, nextAtVertex(s, e))) = "COUNTERCLOCKWISE"
  /\ ccw(fromHalfEdge(s, previousAtVertex(s, -e)), fromHalfEdge(s, nextAtVertex(s, -e))) = "COUNTERCLOCKWISE"

\* The lambda flip(e) of insertAt(): the edges that block e are flipped
\* first, then e is.  What comes back is the codomain of the deformation,
\* the number of flips made, and "assert" when an assertion fails,
\* "exhausted" when more than MaxFlips calls are nested.
RECURSIVE flipCrossing(_, _, _, _, _)
flipCrossing(s, nextTo, v, e, fuel) ==
  IF fuel = 0 THEN [error |-> "exhausted", surface |-> s, flips |-> 0]
  ELSE IF e \in {nextTo, -nextTo, nextAtVertex(s, nextTo), -nextAtVertex(s, nextTo)}
  THEN [error |-> "assert", surface |-> s, flips |-> 0]
  ELSE IF canFlip(s, nextTo, e)
  THEN CHOOSE done \in {[error |-> made.error, surface |-> made.surface, flips |-> 1] :
                          made \in {flip(s, e)}} : TRUE
  ELSE IF /\ ccw(v, fromHalfEdge(s, previousAtVertex(s, e))) = "COUNTERCLOCKWISE"
          /\ ccw(v, fromHalfEdge(s, nextAtVertex(s, -e))) = "CLOCKWISE"
  THEN [error |-> "assert", surface |-> s, flips |-> 0]
  ELSE CHOOSE done \in
    {IF top.error # "ok" THEN top
     ELSE CHOOSE done_ \in
       {[after EXCEPT !.flips = after.flips + top.flips] :
          after \in {flipCrossing(top.surface, nextTo, v, e, fuel - 1)}} : TRUE :
       top \in {flipCrossing(s, nextTo, v,
                              IF ccw(v, fromHalfEdge(s, previousAtVertex(s, e))) # "COUNTERCLOCKWISE"
                              THEN -nextAtVertex(s, -e)
                              ELSE previousAtVertex(s, e),
                              fuel - 1)}} : TRUE

\* while (fromHalfEdge(nextAtVertex(nextTo)).ccw(vector) != CLOCKWISE)
\*   nextTo = nextAtVertex(nextTo);
RECURSIVE turned(_, _, _, _)
turned(s, nextTo, v, fuel) ==
  IF fuel = 0 THEN 0
  ELSE IF ccw(fromHalfEdge(s, nextAtVertex(s, nextTo)), v) # "CLOCKWISE"
  THEN turned(s, nextAtVertex(s, nextTo), v, fuel - 1)
  ELSE nextTo

\* The search for half edges that vector would be crossing: the codomain of
\* the deformation and nextTo when the lambda returns, or what is thrown.
RECURSIVE crossings(_, _, _, _, _)
crossings(s, nextTo, v, flips, fuel) ==
  IF ccw(fromHalfEdge(s, nextTo), v) = "COLLINEAR"
  THEN [error |-> check_orientation(fromHalfEdge(s, nextTo), v), surface |-> s, nextTo |-> nextTo, flips |-> flips]
  ELSE IF ccw(fromHalfEdge(s, nextTo), v) # "COUNTERCLOCKWISE"
  THEN [error |-> "assert", surface |-> s, nextTo |-> nextTo, flips |-> flips]
  ELSE IF ccw(fromHalfEdge(s, nextInFace(s, nextTo)),
              <<v[1] - fromHalfEdge(s, nextTo)[1], v[2] - fromHalfEdge(s, nextTo)[2]>>) = "COUNTERCLOCKWISE"
  THEN [error |-> "ok", surface |-> s, nextTo |-> nextTo, flips |-> flips]
  ELSE IF fuel = 0
  THEN [error |-> "exhausted", surface |-> s, nextTo |-> nextTo, flips |-> flips]
  ELSE CHOOSE found \in
    {IF made.error # "ok"
     THEN [error |-> made.error, surface |-> made.surface, nextTo |-> nextTo, flips |-> flips]
     ELSE IF ccw(fromHalfEdge(made.surface, nextTo), v) # "COUNTERCLOCKWISE"
     THEN [error |-> "assert", surface |-> made.surface, nextTo |-> nextTo, flips |-> flips]
     ELSE CHOOSE found_ \in
       {IF next = 0
        THEN [error |-> "exhausted", surface |-> made.surface, nextTo |-> nextTo, flips |-> flips]
        ELSE crossings(made.surface, next, v, flips + made.flips, fuel - 1) :
          next \in {turned(made.surface, nextTo, v, Cardinality(halfEdges(s)))}} : TRUE :
       made \in {flipCrossing(s, nextTo, v, nextInFace(s, nextTo), MaxFlips)}} : TRUE

\* symmetric(x, e, v)
symmetric(x, e, v) == IF x = e THEN v ELSE Minus(v)

\* The codomain when vector is inside a face: the combinatorial insertion
\* and the vectors of the new half edges a, b, c.
insertedInFace(s, nextTo, v) ==
  LET combinatorial_ == insertAt(s, nextTo)
      a == -nextAtVertex(combinatorial_, nextTo)
      b == nextAtVertex(combinatorial_, a)
      c == nextAtVertex(combinatorial_, b)
  IN  [surface |->
         [combinatorial_ EXCEPT !.vectors =
            [e \in halfEdges(combinatorial_) |->
               IF e \in {a, -a} THEN symmetric(e, a, Minus(v))
               ELSE IF e \in {b, -b}
               THEN symmetric(e, b, Plus(fromHalfEdge(s, nextTo), Minus(v)))
               ELSE IF e \in {c, -c}
               THEN symmetric(e, c, Plus(fromHalfEdge(s, nextAtVertex(s, nextTo)), Minus(v)))
               ELSE fromHalfEdge(s, e)]],
       a |-> a, nextTo |-> nextTo]

\* The codomain when vector is collinear with nextTo: the combinatorial
\* insertion, the flip of nextTo, and the vectors of the half edges a, b, c,
\* d that leave the new vertex.
insertedOnEdge(s, nextTo, v) ==
  LET combinatorial_ == combinatorialFlip(insertAt(s, nextTo), nextTo)
      a == -nextAtVertex(insertAt(s, nextTo), nextTo)
      b == nextAtVertex(combinatorial_, a)
      c == nextAtVertex(combinatorial_, b)
      d == nextAtVertex(combinatorial_, c)
  IN  [surface |->
         [combinatorial_ EXCEPT !.vectors =
            [e \in halfEdges(combinatorial_) |->
               IF e \in {a, -a} THEN symmetric(e, -a, v)
               ELSE IF e \in {b, -b}
               THEN symmetric(e, b, Plus(fromHalfEdge(s, previousAtVertex(s, nextTo)), Minus(v)))
               ELSE IF e \in {c, -c}
               THEN symmetric(e, c, Plus(fromHalfEdge(s, nextTo), Minus(v)))
               ELSE IF e \in {d, -d}
               THEN symmetric(e, d, Plus(fromHalfEdge(s, nextAtVertex(s, nextTo)), Minus(v)))
               ELSE fromHalfEdge(s, e)]],
       a |-> a, nextTo |-> previousAtVertex(s, nextTo)]

\* FlatTriangulation<T>::insertAt: the error thrown or "ok", the codomain
\* of the deformation, nextTo as the call leaves it, the half edge a and
\* the number of flips.
geometricInsertAt(s, nextTo, v) ==
  IF ~inSector(s, nextTo, v)
  THEN [error |-> "invalid_argument", domain |-> Null, codomain |-> Null, nextTo |-> nextTo, a |-> 0, flips |-> 0]
  ELSE CHOOSE deformation \in
    {IF found.error # "ok"
     THEN [error |-> found.error, domain |-> Null, codomain |-> Null, nextTo |-> found.nextTo, a |-> 0, flips |-> found.flips]
     ELSE CHOOSE deformation_ \in
       {[error |-> IF check(made.surface) THEN "ok" ELSE "invalid_argument",
         domain |-> s, codomain |-> made.surface, nextTo |-> made.nextTo, a |-> made.a, flips |-> found.flips] :
          made \in {IF ccw(fromHalfEdge(found.surface, found.nextTo), v) # "COLLINEAR"
                     THEN insertedInFace(found.surface, found.nextTo, v)
                     ELSE insertedOnEdge(found.surface, found.nextTo, v)}} : TRUE :
       found \in {crossings(s, nextTo, v, 0, MaxFlips)}} : TRUE

\* The receivers of insertAt(): the surface, also in half units, so that
\* vectors end inside faces and on edges.
Insertable(s) == {s, scaled(s, 2)}

\* surface->insertAt(nextTo, vector)
InsertAtVector ==
  /\ ~insertion.called
  /\ \E this \in Insertable(heap["S"]) :
     \E nextTo \in halfEdges(this) :
     \E v \in (-MaxInsert..MaxInsert) \X (-MaxInsert..MaxInsert) :
       insertion' = [called |-> TRUE, this |-> this, nextTo |-> nextTo, vector |-> v,
                     deformation |-> geometricInsertAt(this, nextTo, v)]
  /\ UNCHANGED <<isomorphic, equivalent, constructed, chosen, tracking, decomposed, applied, cells>>
  /\ UNCHANGED surfaceVars
  /\ UNCHANGED pointVars
  /\ UNCHANGED combinatorialVars
  /\ UNCHANGED shiftVars

InsertNext == InsertAtVector

InsertSpec == Init /\ [][InsertNext]_vars

----------------------------------------------------------------------------
(* CombinatorialEquivalence<Surface>::code and EquivalenceClass<Surface>   *)

\* The walkers of code() with a walker for the edges only.
walkersOfEdges(s, oriented) ==
  {[start |-> start, sgn |-> sgn_] :
     start \in edges(s), sgn_ \in IF oriented THEN {1} ELSE {1, -1}}

\* The walkers of code(): one for every half edge, and one more in the
\* other sense when the equivalence is not oriented.
walkers(s, oriented) ==
  {[start |-> start, sgn |-> sgn_] :
     start \in halfEdges(s), sgn_ \in IF oriented THEN {1} ELSE {1, -1}}

\* The place of a half edge among the labeled ones, 0 when it has none.
label(labeled, he) ==
  IF \E i \in 1..Len(labeled) : labeled[i] = he
  THEN CHOOSE i \in 1..Len(labeled) : labeled[i] = he
  ELSE 0

\* The half edges labeled so far and then he, unless it is labeled.
labeledWith(labeled, he) ==
  IF label(labeled, he) = 0 THEN Append(labeled, he) ELSE labeled

\* The word of a walker: the half edges are labeled in the order in which
\* the walk from start meets them; a step takes the next labeled half edge,
\* meets its negative and the half edge after it in its face (in the other
\* sense: before it), and emits their labels.
RECURSIVE wordFrom(_, _, _, _)
wordFrom(s, sgn_, labeled, steps) ==
  IF steps >= Len(labeled) THEN <<>>
  ELSE CHOOSE word_ \in
    {<<label(met, -labeled[steps + 1]),
       label(met, IF sgn_ = 1 THEN previousAtVertex(s, -labeled[steps + 1])
                  ELSE nextAtVertex(s, -labeled[steps + 1]))>>
       \o wordFrom(s, sgn_, met, steps + 1) :
       met \in {labeledWith(labeledWith(labeled, -labeled[steps + 1]),
                             IF sgn_ = 1 THEN previousAtVertex(s, -labeled[steps + 1])
                             ELSE nextAtVertex(s, -labeled[steps + 1]))}} : TRUE

\* cmp on words: the first is not after the second in the lexicographic
\* order.
RECURSIVE notAfter(_, _)
notAfter(lhs, rhs) ==
  IF lhs = <<>> THEN TRUE
  ELSE IF rhs = <<>> THEN FALSE
  ELSE IF Head(lhs) # Head(rhs) THEN Head(lhs) < Head(rhs)
  ELSE notAfter(Tail(lhs), Tail(rhs))

\* CombinatorialEquivalenceWalker<Surface>::word(walkers): the least word,
\* and a deformation for every walker that has it.
word(s, all) ==
  CHOOSE minimal \in
    {[code |-> CHOOSE least \in {w[2] : w \in words} : \A w \in words : notAfter(least, w[2]),
      deformations |-> {w[1] : w \in {w \in words : \A v \in words : notAfter(w[2], v[2])}}] :
       words \in {{<<walker, wordFrom(s, walker.sgn, <<walker.start>>, 0)>> : walker \in all}}} : TRUE

\* CombinatorialEquivalence<Surface>::code
code(s, oriented) == word(s, walkers(s, oriented))

\* ImplementationOf<EquivalenceClass<Surface>>::ImplementationOf
EquivalenceClass(s, oriented) ==
  CHOOSE class \in
    {[equivalence |-> oriented, code |-> found.code, automorphisms |-> Cardinality(found.deformations)] :
       found \in {code(s, oriented)}} : TRUE

\* The surfaces whose classes are compared with the class of a surface:
\* its rotations by quarter turns, renamed, the edges 1 and 2 exchanged
\* first or not.
Rotations(s) ==
  {relabel(linear(s, m[1], m[2], m[3], m[4]), [x \in halfEdges(s) |-> pi[exchange[x]]]) :
     m \in {<<1, 0, 0, 1>>, <<0, -1, 1, 0>>, <<-1, 0, 0, -1>>, <<0, 1, -1, 0>>},
     pi \in Relabelings(s),
     exchange \in {[x \in halfEdges(s) |-> x],
                   [x \in halfEdges(s) |-> CASE x = 1 -> 2 [] x = 2 -> 1 [] x = -1 -> -2 [] x = -2 -> -1
                                              [] OTHER -> x]}}

\* EquivalenceClass(surface, Equivalence::combinatorial(oriented)) for a
\* surface and for a rotation of it
Classify ==
  /\ ~equivalent.called
  /\ \E other \in Rotations(heap["S"]) :
     \E oriented \in BOOLEAN :
       equivalent' = [called |-> TRUE, surface |-> heap["S"], other |-> other,
                      class |-> EquivalenceClass(heap["S"], oriented),
                      otherClass |-> EquivalenceClass(other, oriented)]
  /\ UNCHANGED <<isomorphic, insertion, constructed, chosen, tracking, decomposed, applied, cells>>
  /\ UNCHANGED surfaceVars
  /\ UNCHANGED pointVars
  /\ UNCHANGED combinatorialVars
  /\ UNCHANGED shiftVars

EquivalenceNext == Classify

EquivalenceSpec == Init /\ [][EquivalenceNext]_vars

----------------------------------------------------------------------------
(* The construction of a surface from a list of vectors.                   *)

\* A coordinate of a vector put in the place of a vector of a surface is
\* at most this far from zero.
MaxReplaced == 1

\* FlatTriangulation<T>::FlatTriangulation(combinatorial, vectors) for a
\* std::vector of vectors: the delegated constructor reads vectors.at(index
\* of the edge) for every half edge and runs check(); the size of the list is
\* compared with the number of edges in the body, after that.
FlatTriangulationOfVectors(comb, list) ==
  IF \E e \in edges(comb) : e > Len(list)
  THEN [error |-> "out_of_range", surface |-> Null]
  ELSE LET made == [vertices |-> comb.vertices,
                    faces    |-> comb.faces,
                    boundary |-> comb.boundary,
                    vectors  |-> [h \in halfEdges(comb) |->
                                    IF h > 0 THEN list[h] ELSE Minus(list[-h])]]
       IN  IF ~check(made) THEN [error |-> "invalid_argument", surface |-> Null]
           ELSE IF Len(list) # Cardinality(edges(comb))
           THEN [error |-> "invalid_argument", surface |-> Null]
           ELSE [error |-> "ok", surface |-> made]

\* The lists of vectors that a surface is constructed from: the vectors of
\* the edges of a surface or their mirror images, with at most one of them
\* replaced, and with the last one left out or with one more at the end.
Lists(s) ==
  LET n == Cardinality(edges(s))
      whole == {[i \in 1..n |-> s.vectors[i]], [i \in 1..n |-> <<s.vectors[i][1], -s.vectors[i][2]>>]}
      small == (-MaxReplaced)..MaxReplaced
      replaced == whole \cup {[w EXCEPT ![i] = <<x, y>>] : w \in whole, i \in 1..n, x \in small, y \in small}
  IN  replaced \cup {SubSeq(w, 1, n - 1) : w \in replaced} \cup {Append(w, w[1]) : w \in replaced}

\* FlatTriangulation<T>(combinatorial.clone(), vectors)
Construct ==
  /\ ~constructed.called
  /\ \E list \in Lists(heap["S"]) :
     \E made \in {FlatTriangulationOfVectors(heap["S"], list)} :
       constructed' = [called |-> TRUE, vectors |-> list, error |-> made.error, surface |-> made.surface]
  /\ UNCHANGED <<isomorphic, insertion, equivalent, chosen, tracking, decomposed, applied, cells>>
  /\ UNCHANGED surfaceVars
  /\ UNCHANGED pointVars
  /\ UNCHANGED combinatorialVars
  /\ UNCHANGED shiftVars

ConstructNext == Construct

ConstructSpec == Init /\ [][ConstructNext]_vars

----------------------------------------------------------------------------
(* The choice of the half edge to collapse in eliminateMarkedPoints().     *)

\* The square torus of side 3 with two marked points, one in each face.
TwiceMarkedTorus ==
  FlatTriangulation({<<1, 4, -3, 7, 2, 5, -1, 8, 3, 6, -2, 9>>, <<-4, -5, -6>>, <<-7, -8, -9>>},
                    <<<<3, 0>>, <<0, 3>>, <<-3, -3>>, <<2, 1>>, <<-1, 1>>, <<-1, -2>>,
                      <<1, 2>>, <<-2, -1>>, <<1, -1>>>>)

\* What the flip of a strictly convex edge makes of the surface s.
Flipped(s) ==
  {flip(s, e).surface : e \in {e \in 1..(Cardinality(halfEdges(s)) \div 2) : convex(s, e, TRUE)}}

\* The surfaces that the choice is made on: the surfaces with marked points
\* and, next to the marked torus, the torus with two marked points and what
\* up to MaxFlipped flips make of it.
MaxFlipped == 6

RECURSIVE FlippedUpTo(_, _)
FlippedUpTo(s, n) ==
  IF n = 0 THEN {s}
  ELSE {s} \cup UNION {FlippedUpTo(once, n - 1) : once \in Flipped(s)}

Candidates(s) ==
  Marked(s) \cup (IF s = MarkedTorus THEN FlippedUpTo(TwiceMarkedTorus, MaxFlipped) ELSE {})

\* std::optional<HalfEdge> collapse; for (const auto &vertex :
\* this->vertices()) ...: the choice of eliminateMarkedPoints().
Select ==
  /\ ~chosen.called
  /\ \E s \in Candidates(heap["S"]) :
       chosen' = [called |-> TRUE, domain |-> s,
                    collapse |-> collapseAt(s, inOrder(vertices(s)), 0)]
  /\ UNCHANGED <<isomorphic, insertion, equivalent, constructed, tracking, decomposed, applied, cells>>
  /\ UNCHANGED surfaceVars
  /\ UNCHANGED pointVars
  /\ UNCHANGED combinatorialVars
  /\ UNCHANGED shiftVars

SelectNext == Select

SelectSpec == Init /\ [][SelectNext]_vars

----------------------------------------------------------------------------
(* The tracked vectors and approximations of a surface through a flip.     *)

\* static_cast<flatsurf::Vector<exactreal::Arb>>(v): a ball around v, of
\* radius zero for the integers of the model.
Arb(v) == [mid |-> v, rad |-> 0]

\* OddHalfEdgeMap<Vector<exactreal::Arb>>::set assigns a half edge and its
\* negative together.
setArb(approximations, h, ball) ==
  [approximations EXCEPT ![h] = ball, ![-h] = [mid |-> Minus(ball.mid), rad |-> ball.rad]]

\* The approximations that the constructor builds from the exact vectors.
approximationsOf(s) == [h \in halfEdges(s) |-> Arb(fromHalfEdge(s, h))]

\* ImplementationOf<FlatTriangulation<T>>::updateApproximationAfterFlip, the
\* flip callback of the tracked approximations; surface is the surface
\* after the combinatorial flip, with the exact vectors as they are when
\* the callback runs.
updateApproximationAfterFlip(approximations, surface, flip_) ==
  setArb(approximations, flip_,
         Arb(Plus(fromHalfEdge(surface, -nextInFace(surface, flip_)),
                  fromHalfEdge(surface, -previousInFace(surface, flip_)))))

\* The trackers of a surface in the order of their registration: the
\* constructor builds the tracked vectors first and the tracked
\* approximations second.
trackers == <<"updateAfterFlip", "updateApproximationAfterFlip">>

\* afterFlip with the trackers called from the last registered to the first.
RECURSIVE afterFlipBackwards(_, _, _)
afterFlipBackwards(run, registered, flip_) ==
  IF registered = <<>> THEN run
  ELSE LET tracker == registered[Len(registered)]
       IN  afterFlipBackwards(
             [surface |-> IF tracker = "updateAfterFlip"
                          THEN [run.surface EXCEPT !.vectors = updateAfterFlip(run.surface.vectors, run.surface, flip_)]
                          ELSE run.surface,
              approximations |-> IF tracker = "updateApproximationAfterFlip"
                                 THEN updateApproximationAfterFlip(run.approximations, run.surface, flip_)
                                 ELSE run.approximations,
              calls |-> Append(run.calls, tracker)],
             SubSeq(registered, 1, Len(registered) - 1), flip_)

\* The notification of a flip by the combinatorial surface: the flip
\* callback of every registered tracker is called once, in the order of
\* registration.
RECURSIVE afterFlip(_, _, _)
afterFlip(run, registered, flip_) ==
  IF registered = <<>> THEN run
  ELSE LET tracker == Head(registered)
       IN  afterFlip(
             [surface |-> IF tracker = "updateAfterFlip"
                          THEN [run.surface EXCEPT !.vectors = updateAfterFlip(run.surface.vectors, run.surface, flip_)]
                          ELSE run.surface,
              approximations |-> IF tracker = "updateApproximationAfterFlip"
                                 THEN updateApproximationAfterFlip(run.approximations, run.surface, flip_)
                                 ELSE run.approximations,
              calls |-> Append(run.calls, tracker)],
             Tail(registered), flip_)

\* ImplementationOf<FlatTriangulation<T>>::flip with the calls it makes:
\* the combinatorial flip changes the permutations and notifies the
\* trackers, then check() runs.
flipTracked(s, approximations, e) ==
  IF ~convex(s, e, TRUE)
  THEN [surface |-> s, approximations |-> approximations, calls |-> <<>>, error |-> "invalid_argument"]
  ELSE CHOOSE flipped \in
         {[surface |-> run.surface, approximations |-> run.approximations,
           calls |-> Append(run.calls, "check"),
           error |-> IF check(run.surface) THEN "ok" ELSE "invalid_argument"] :
            run \in {afterFlip([surface |-> combinatorialFlip(s, e),
                                approximations |-> approximations,
                                calls |-> <<"flip">>], trackers, e)}} : TRUE

\* The number of flips before the flip that is followed.
MaxTracked == 3

\* surface->flip(e), on the surface S and on what up to MaxTracked flips
\* make of it, each a surface as its constructor made it.
FlipTracked ==
  /\ ~tracking.called
  /\ \E s \in FlippedUpTo(heap["S"], MaxTracked) : \E e \in halfEdges(s) :
     \E flipped \in {flipTracked(s, approximationsOf(s), e)} :
       tracking' = [called |-> TRUE, before |-> s, e |-> e, error |-> flipped.error,
                    surface |-> flipped.surface, approximations |-> flipped.approximations,
                    calls |-> flipped.calls]
  /\ UNCHANGED <<isomorphic, insertion, equivalent, constructed, chosen, decomposed, applied, cells>>
  /\ UNCHANGED surfaceVars
  /\ UNCHANGED pointVars
  /\ UNCHANGED combinatorialVars
  /\ UNCHANGED shiftVars

TrackNext == FlipTracked

TrackSpec == Init /\ [][TrackNext]_vars

----------------------------------------------------------------------------
(* Vertical<Surface>::components().                                        *)

\* ImplementationOf<Vertical<Surface>>::visit with the visitor of
\* components(), which returns true for every half edge: the component
\* after the visit.  A half edge that is collinear with the vertical is put
\* into the component and not crossed.
RECURSIVE visit(_, _, _, _)
visit(s, vertical, start, component) ==
  IF start \in component THEN component
  ELSE IF ccw(vertical, fromHalfEdge(s, start)) = "COLLINEAR" THEN component \cup {start}
  ELSE visit(s, vertical, previousInFace(s, start),
         visit(s, vertical, nextInFace(s, start),
           visit(s, vertical, -start, component \cup {start})))

\* Vertical<Surface>::components: the loop over the half edges in the given
\* order; a half edge that is in a component found before starts no
\* component.
RECURSIVE components(_, _, _, _, _)
components(s, vertical, order, found, done) ==
  IF order = <<>> THEN found
  ELSE IF Head(order) \in done THEN components(s, vertical, Tail(order), found, done)
  ELSE LET component == visit(s, vertical, Head(order), {})
       IN  components(s, vertical, Tail(order), Append(found, component), done \cup component)

\* surface->halfEdges(): 1, -1, 2, -2, ...
halfEdgesInOrder(s) ==
  [i \in 1..Cardinality(halfEdges(s)) |-> IF i % 2 = 1 THEN (i + 1) \div 2 ELSE -(i \div 2)]

\* The orders in which the half edges are gone through: the order of
\* halfEdges() and the same order begun at a later half edge.
Orders(s) ==
  {SubSeq(halfEdgesInOrder(s), i, Cardinality(halfEdges(s))) \o SubSeq(halfEdgesInOrder(s), 1, i - 1) :
     i \in 1..Cardinality(halfEdges(s))}

\* The vertical directions: CHECK_ARGUMENT(vertical, "vertical must be
\* non-zero").
Verticals == Displacements \ {Zero}

\* Vertical(*surface, vertical).components()
Components ==
  /\ ~decomposed.called
  /\ \E vertical \in Verticals : \E order \in Orders(heap["S"]) :
       decomposed' = [called |-> TRUE, vertical |-> vertical, order |-> order,
                      components |-> components(heap["S"], vertical, order, <<>>, {})]
  /\ UNCHANGED <<isomorphic, insertion, equivalent, constructed, chosen, tracking, applied, cells>>
  /\ UNCHANGED surfaceVars
  /\ UNCHANGED pointVars
  /\ UNCHANGED combinatorialVars
  /\ UNCHANGED shiftVars

VerticalNext == Components

VerticalSpec == Init /\ [][VerticalNext]_vars

----------------------------------------------------------------------------
(* Equivalence<Surface>: the factories, and LinearEquivalence<Surface>.    *)

\* The factories of Equivalence.
Factories == {"combinatorial", "unlabeled", "orthogonal", "areaPreserving", "linear"}

\* Equivalence<Surface>::combinatorial, unlabeled, orthogonal,
\* areaPreserving and linear (with no normalization given): the
\* implementation that the factory makes.
Equivalence(factory, oriented) ==
  CASE factory = "combinatorial" ->
         [implementation |-> "CombinatorialEquivalence", oriented |-> oriented, normalization |-> "none"]
    [] factory = "unlabeled" ->
         [implementation |-> "LinearEquivalence", oriented |-> TRUE, normalization |-> "TRIVIAL"]
    [] factory = "orthogonal" ->
         [implementation |-> "LinearEquivalence", oriented |-> oriented, normalization |-> "O"]
    [] factory = "areaPreserving" ->
         [implementation |-> "LinearEquivalence", oriented |-> oriented, normalization |-> "SL"]
    [] factory = "linear" ->
         [implementation |-> "LinearEquivalence", oriented |-> oriented, normalization |-> "GL"]

\* CombinatorialEquivalence<Surface>::toString and
\* LinearEquivalence<Surface>::toString.
toString(equivalence) ==
  IF equivalence.implementation = "CombinatorialEquivalence"
  THEN [error |-> "ok",
        name |-> IF equivalence.oriented THEN "Orientation Preserving Combinatorial Equivalence"
                 ELSE "Combinatorial Equivalence"]
  ELSE CASE equivalence.normalization = "TRIVIAL" ->
              [error |-> "ok", name |-> "Equivalence Modulo Labels"]
         [] equivalence.normalization = "SL" ->
              [error |-> "ok", name |-> IF equivalence.oriented THEN "Equivalence Modulo SL(2)"
                                        ELSE "Equivalence Module SL±(2)"]
         [] equivalence.normalization = "GL" ->
              [error |-> "ok", name |-> IF equivalence.oriented THEN "Special Linear Equivalence"
                                        ELSE "Linear Equivalence"]
         [] OTHER -> [error |-> "not implemented", name |-> ""]

\* div: the quotient of the ring, here the integers, or the logic error
\* "normalization is not possible in this ring".
div(numerator, denominator) ==
  IF truediv(numerator, denominator).exact
  THEN [error |-> "ok", value |-> truediv(numerator, denominator).quotient]
  ELSE [error |-> "not possible", value |-> 0]

\* A matrix of quotients, or the error of the first quotient that failed.
quotients(entries) ==
  IF \A i \in 1..4 : entries[i].error = "ok"
  THEN [error |-> "ok", matrix |-> [i \in 1..4 |-> entries[i].value]]
  ELSE [error |-> "not possible", matrix |-> <<>>]

\* LinearEquivalence<Surface>::orthonormalize: the matrix that takes the
\* half edge a to (1, 0) and b to (0, 1); collinear half edges fail the
\* assertion.
orthonormalize(s, a, b) ==
  LET v == fromHalfEdge(s, a)
      w == fromHalfEdge(s, b)
      det == v[1] * w[2] - v[2] * w[1]
      negated(quotient) == [quotient EXCEPT !.value = -quotient.value]
  IN  IF det = 0 THEN [error |-> "assert", matrix |-> <<>>]
      ELSE quotients(<<div(w[2], det), negated(div(w[1], det)), negated(div(v[2], det)), div(v[1], det)>>)

\* LinearEquivalence<Surface>::orthogonalize: orthonormalize with the second
\* row divided by the absolute value of the determinant.
orthogonalize(s, e, f) ==
  LET made == orthonormalize(s, e, f)
  IN  IF made.error # "ok" THEN made
      ELSE LET a == made.matrix[1]
               b == made.matrix[2]
               c == made.matrix[3]
               d == made.matrix[4]
               det == IF a * d - b * c < 0 THEN -(a * d - b * c) ELSE a * d - b * c
           IN  quotients(<<[error |-> "ok", value |-> a], [error |-> "ok", value |-> b],
                           div(c, det), div(d, det)>>)

\* LinearEquivalence<Surface>::normalize
normalizeMatrix(equivalence, s, e, f) ==
  CASE equivalence.normalization = "TRIVIAL" -> [error |-> "ok", matrix |-> <<1, 0, 0, 1>>]
    [] equivalence.normalization = "GL" -> orthonormalize(s, e, f)
    [] equivalence.normalization = "SL" -> orthogonalize(s, e, f)
    [] OTHER -> [error |-> "not implemented", matrix |-> <<>>]

\* The determinant of a normalization matrix.
det2(matrix) == matrix[1] * matrix[4] - matrix[2] * matrix[3]

\* LinearEquivalence<Surface>::code, up to the walkers: for every half edge
\* the walker normalized with the next half edge at the vertex and, when
\* the equivalence is not oriented, the walker normalized with the previous
\* one; the first error ends the call, and so does a determinant of the
\* wrong sign.
RECURSIVE linearWalkers(_, _, _, _)
linearWalkers(equivalence, s, order, made) ==
  IF order = <<>> THEN [error |-> "ok", walkers |-> made]
  ELSE LET start == Head(order)
           forth == normalizeMatrix(equivalence, s, start, nextAtVertex(s, start))
           back  == normalizeMatrix(equivalence, s, start, previousAtVertex(s, start))
       IN  IF forth.error # "ok" THEN [error |-> forth.error, walkers |-> made]
           ELSE IF ~(det2(forth.matrix) > 0) THEN [error |-> "assert", walkers |-> made]
           ELSE IF equivalence.oriented
           THEN linearWalkers(equivalence, s, Tail(order),
                  Append(made, [start |-> start, sgn |-> 1, normalization |-> forth.matrix]))
           ELSE IF back.error # "ok" THEN [error |-> back.error, walkers |-> made]
           ELSE IF ~(det2(back.matrix) < 0) THEN [error |-> "assert", walkers |-> made]
           ELSE linearWalkers(equivalence, s, Tail(order),
                  Append(Append(made, [start |-> start, sgn |-> 1, normalization |-> forth.matrix]),
                         [start |-> start, sgn |-> -1, normalization |-> back.matrix]))

\* EquivalenceClass(surface, equivalence): the code of the surface is
\* computed, by CombinatorialEquivalence::code or LinearEquivalence::code.
codeOf(equivalence, s) ==
  IF equivalence.implementation = "CombinatorialEquivalence"
  THEN [error |-> "ok", walkers |-> <<>>, automorphisms |-> EquivalenceClass(s, equivalence.oriented).automorphisms]
  ELSE CHOOSE computed \in
         {[error |-> made.error, walkers |-> made.walkers, automorphisms |-> 0] :
            made \in {linearWalkers(equivalence, s, halfEdgesInOrder(s), <<>>)}} : TRUE

\* fmt::format("{}", equivalence) and EquivalenceClass(surface, equivalence),
\* for the equivalence of a factory and the surface S or what a flip makes
\* of it.
Apply ==
  /\ ~applied.called
  /\ \E factory \in Factories : \E oriented \in BOOLEAN : \E s \in FlippedUpTo(heap["S"], 1) :
     \E equivalence \in {Equivalence(factory, oriented)} :
       applied' = [called |-> TRUE, factory |-> factory, equivalence |-> equivalence, surface |-> s,
                   name |-> toString(equivalence), code |-> codeOf(equivalence, s)]
  /\ UNCHANGED <<isomorphic, insertion, equivalent, constructed, chosen, tracking, decomposed, cells>>
  /\ UNCHANGED surfaceVars
  /\ UNCHANGED pointVars
  /\ UNCHANGED combinatorialVars
  /\ UNCHANGED shiftVars

ApplyNext == Apply

ApplySpec == Init /\ [][ApplyNext]_vars

----------------------------------------------------------------------------
(* FlatTriangulation<T>::isomorphism(other, kind, filterMatrix,            *)
(* filterHalfEdgeMap) for both kinds, FACES and DELAUNAY_CELLS.            *)

\* const auto ignore = [&](HalfEdge he) { ... }
ignore(s, kind, he) ==
  IF kind = "FACES" THEN FALSE ELSE delaunay(s, positive(Edge(he))) = "AMBIGUOUS"

\* const auto ignoreImage = [&](HalfEdge he) { ... }: he is a half edge of
\* `other`; the status is asked of this->delaunay.
ignoreImage(s, other, kind, he) ==
  IF kind = "FACES" THEN FALSE ELSE delaunay(s, positive(Edge(he))) = "AMBIGUOUS"

\* nextInCell: do e = previousAtVertex(e) while (ignore(e)), from -e.
nextInCellIgnoring(s, kind, e) ==
  LET RECURSIVE around(_)
      around(x) ==
        IF ignore(s, kind, previousAtVertex(s, x)) THEN around(previousAtVertex(s, x))
        ELSE previousAtVertex(s, x)
  IN  around(-e)

\* nextInImageCell: the same in `other`, backwards for sgn = -1, while
\* (ignoreImage(e)).
nextInImageCellIgnoring(s, other, kind, sgn_, e) ==
  LET step(x) == IF sgn_ = 1 THEN previousAtVertex(other, x) ELSE nextAtVertex(other, x)
      RECURSIVE around(_)
      around(x) ==
        IF ignoreImage(s, other, kind, step(x)) THEN around(step(x)) ELSE step(x)
  IN  around(-e)

\* match(from, to) with the cells of the kind in try.
RECURSIVE matchCells(_, _, _, _)
matchCells(try, from, to, isomorphism_) ==
  IF isomorphism_[from] # 0
  THEN [matched |-> isomorphism_[from] = to, isomorphism |-> isomorphism_]
  ELSE IF <<from, to>> \in try.rejected
  THEN [matched |-> FALSE, isomorphism |-> isomorphism_]
  ELSE IF try.a * fromHalfEdge(try.this, from)[1] + try.b * fromHalfEdge(try.this, from)[2]
            # fromHalfEdge(try.other, to)[1]
  THEN [matched |-> FALSE, isomorphism |-> isomorphism_]
  ELSE IF try.c * fromHalfEdge(try.this, from)[1] + try.d * fromHalfEdge(try.this, from)[2]
            # fromHalfEdge(try.other, to)[2]
  THEN [matched |-> FALSE, isomorphism |-> isomorphism_]
  ELSE CHOOSE matching \in
    {IF ~opposite.matched THEN opposite
     ELSE matchCells(try, nextInCellIgnoring(try.this, try.kind, from),
                     nextInImageCellIgnoring(try.this, try.other, try.kind, try.sgn, to),
                     opposite.isomorphism) :
       opposite \in {matchCells(try, -from, -to, [isomorphism_ EXCEPT ![from] = to])}} : TRUE

\* The body of the loops over image and sgn for a kind.
matchCellsFrom(s, other, kind, filter, rejected, preimage, image_, sgn_) ==
  CHOOSE attempt \in
    {IF ~m.exact THEN [found |-> FALSE]
     ELSE IF (sgn_ = 1) # (m.a * m.d > m.b * m.c) THEN [found |-> FALSE]
     ELSE IF ~filterMatrix(filter, m.a, m.b, m.c, m.d) THEN [found |-> FALSE]
     ELSE CHOOSE attempt_ \in
       {IF matching.matched
        THEN [found |-> TRUE, sgn |-> sgn_, a |-> m.a, b |-> m.b, c |-> m.c, d |-> m.d,
              image |-> image_, isomorphism |-> matching.isomorphism]
        ELSE [found |-> FALSE] :
          matching \in
            {matchCells([this |-> s, other |-> other, kind |-> kind, sgn |-> sgn_, rejected |-> rejected,
                         a |-> m.a, b |-> m.b, c |-> m.c, d |-> m.d],
                        preimage, image_, [he \in halfEdges(s) |-> 0])}} : TRUE :
       m \in {matrixOf(fromHalfEdge(s, preimage),
                       fromHalfEdge(s, nextInCellIgnoring(s, kind, preimage)),
                       fromHalfEdge(other, image_),
                       fromHalfEdge(other, nextInImageCellIgnoring(s, other, kind, sgn_, image_)))}} : TRUE

\* No edge of the surface is NON_DELAUNAY.
delaunayTriangulated(s) == \A e \in edges(s) : delaunay(s, e) # "NON_DELAUNAY"

\* FlatTriangulation<T>::isomorphism for a kind: the assertions, the
\* preimage, and the first image and sgn, in the order of the loops, for
\* which the search succeeds.  `skipped` holds the half edges of `other`
\* at which the loop over the images continues at once.
isomorphismOfCells(s, other, kind, filter, rejected) ==
  IF hasBoundary(s) # hasBoundary(other) THEN [error |-> "ok", found |-> FALSE, skipped |-> {}]
  ELSE IF Cardinality(halfEdges(s)) # Cardinality(halfEdges(other))
  THEN [error |-> "ok", found |-> FALSE, skipped |-> {}]
  ELSE IF hasBoundary(s) THEN [error |-> "logic_error", found |-> FALSE, skipped |-> {}]
  ELSE IF kind = "DELAUNAY_CELLS" /\ ~(delaunayTriangulated(s) /\ delaunayTriangulated(other))
  THEN [error |-> "logic_error", found |-> FALSE, skipped |-> {}]
  ELSE IF \A he \in halfEdges(s) : ignore(s, kind, he)
  THEN [error |-> "logic_error", found |-> FALSE, skipped |-> {}]
  ELSE LET images == {he \in halfEdges(other) : ~ignoreImage(s, other, kind, he)}
           preimage == CHOOSE he \in halfEdges(s) :
                         /\ ~ignore(s, kind, he)
                         /\ \A before \in halfEdges(s) : index(before) < index(he) => ignore(s, kind, before)
       IN  CHOOSE deformation \in
    {IF matches = {} THEN [error |-> "ok", found |-> FALSE, skipped |-> halfEdges(other) \ images]
     ELSE CHOOSE first_ \in
       {[error |-> "ok", skipped |-> {he \in halfEdges(other) \ images : index(he) < index(first.image)}]
          @@ first :
          first \in {CHOOSE first \in matches :
                       \A later \in matches :
                         2 * index(first.image) - first.sgn <= 2 * index(later.image) - later.sgn}} : TRUE :
       matches \in
         {{attempt \in {matchCellsFrom(s, other, kind, filter, rejected, preimage, image_, sgn_) :
                          image_ \in images, sgn_ \in {1, -1}} : attempt.found}}} : TRUE

\* The Delaunay triangulations that are compared: the surface and, but for
\* the L, what a flip makes of it, when no edge is NON_DELAUNAY.
Triangulations(s) ==
  {x \in FlippedUpTo(s, IF s = L THEN 0 ELSE 1) : delaunayTriangulated(x)}

\* The surfaces that a Delaunay triangulation is compared with: the
\* Delaunay triangulations of the surface rotated, reflected, scaled and
\* renamed.
Images(s) ==
  {relabel(linear(x, m[1], m[2], m[3], m[4]), pi) :
     x \in Triangulations(s),
     m \in {<<1, 0, 0, 1>>, <<0, -1, 1, 0>>, <<1, 0, 0, -1>>, <<2, 0, 0, 2>>},
     pi \in Relabelings(s)}

\* surface->isomorphism(other, kind, filterMatrix, filterHalfEdgeMap)
IsomorphismOfCells ==
  /\ ~cells.called
  /\ \E this \in Triangulations(heap["S"]) :
     \E other \in Images(heap["S"]) :
     \E kind \in {"FACES", "DELAUNAY_CELLS"} :
     \E filter \in {"any", "identity", "rotation", "unimodular"} :
     \E rejected \in {{}, {<<1, 1>>}} :
       cells' = [called |-> TRUE, this |-> this, other |-> other, kind |-> kind,
                 filterMatrix |-> filter, rejected |-> rejected,
                 deformation |-> isomorphismOfCells(this, other, kind, filter, rejected)]
  /\ UNCHANGED <<isomorphic, insertion, equivalent, constructed, chosen, tracking, decomposed, applied>>
  /\ UNCHANGED surfaceVars
  /\ UNCHANGED pointVars
  /\ UNCHANGED combinatorialVars
  /\ UNCHANGED shiftVars

CellsNext == IsomorphismOfCells

CellsSpec == Init /\ [][CellsNext]_vars

----------------------------------------------------------------------------
(* Properties of flip() and delaunay().                                    *)

\* The current state of the clone.
D == heap[deformed]

\* The closure and orientation invariants of a surface, written out.
Valid(s) ==
  \A h \in halfEdges(s) :
    /\ s.vectors[-h] = Minus(s.vectors[h])
    /\ s.vectors[h] # Zero
    /\ ~boundary(s, h) =>
         LET g == nextInFace(s, h)
             f == nextInFace(s, g)
         IN  /\ s.vectors[h][1] + s.vectors[g][1] + s.vectors[f][1] = 0
             /\ s.vectors[h][2] + s.vectors[g][2] + s.vectors[f][2] = 0
             /\ s.vectors[h][1] * s.vectors[g][2] - s.vectors[h][2] * s.vectors[g][1] > 0

\* C1: in every state reached by flip() and delaunay() calls, the vectors
\* are antisymmetric, no vector is zero, every face is closed and its
\* consecutive vectors turn strictly counterclockwise.
C1_InvariantsHold == deformed # "null" => Valid(D)

\* A state reached by a successful flip followed by a successful delaunay()
\* that had to flip.
C1_Witness ==
  /\ pc = "idle"
  /\ prevCall.op = "flip" /\ prevCall.error = "ok"
  /\ lastCall.op = "delaunay" /\ lastCall.error = "ok"
  /\ D # lastCall.before

\* C2: a flip of an edge that is not strictly convex fails with
\* invalid-argument and leaves both permutations and every vector as they
\* were; after any flip, failed or not, the invariants hold.
C2_FailedFlipUnchanged ==
  (pc = "idle" /\ lastCall.op = "flip") =>
    /\ ~convex(lastCall.before, lastCall.e, TRUE) =>
         /\ result = "invalid_argument"
         /\ D.faces = lastCall.before.faces
         /\ D.vertices = lastCall.before.vertices
         /\ D.vectors = lastCall.before.vectors
    /\ Valid(D)

\* A flip of an edge that is not strictly convex has just failed.
C2_Witness ==
  /\ pc = "idle"
  /\ lastCall.op = "flip"
  /\ result = "invalid_argument"
  /\ ~convex(lastCall.before, lastCall.e, TRUE)

\* The last two calls were flips of the same half edge, which was strictly
\* convex before each of them.
FlippedTwice ==
  /\ pc = "idle"
  /\ prevCall.op = "flip"
  /\ lastCall.op = "flip"
  /\ lastCall.e = prevCall.e
  /\ convex(prevCall.before, prevCall.e, TRUE)
  /\ convex(lastCall.before, lastCall.e, TRUE)

\* The surface s with the half edges e and -e exchanged.
Reversed(s, e) ==
  LET swap(h) == IF h = e THEN -e ELSE IF h = -e THEN e ELSE h
  IN  [vertices |-> [h \in halfEdges(s) |-> swap(s.vertices[swap(h)])],
       faces    |-> [h \in halfEdges(s) |-> swap(s.faces[swap(h)])],
       boundary |-> {swap(h) : h \in s.boundary},
       vectors  |-> [h \in halfEdges(s) |-> s.vectors[swap(h)]]]

\* C3 as claimed: flipping twice in succession a half edge e that is
\* strictly convex both times succeeds and yields a triangulation equal to
\* the one before the two flips.
C3_FlipTwiceIsIdentity ==
  FlippedTwice =>
    /\ prevCall.error = "ok" /\ lastCall.error = "ok"
    /\ SurfaceEq(D, prevCall.before)

\* C3 as amended: flipping twice in succession a half edge e that is
\* strictly convex both times succeeds and yields the triangulation before
\* the two flips with e turned around: e and -e are exchanged in both
\* permutations, the vector of e is the negative of its former vector, and
\* the vector of every other half edge is unchanged.
C3_FlipTwiceReverses ==
  FlippedTwice =>
    /\ prevCall.error = "ok" /\ lastCall.error = "ok"
    /\ SurfaceEq(D, Reversed(prevCall.before, lastCall.e))
    /\ D.vectors[lastCall.e] = Minus(prevCall.before.vectors[lastCall.e])
    /\ \A h \in halfEdges(D) \ {lastCall.e, -lastCall.e} : D.vectors[h] = prevCall.before.vectors[h]

\* The same half edge has just been flipped twice, on a surface with more
\* than one vertex.
C3_Witness == FlippedTwice /\ Cardinality(halfEdges(D)) > 6

\* The faces of s, each as the set of its half edges.
Faces(s) == {{h, nextInFace(s, h), nextInFace(s, nextInFace(s, h))} : h \in halfEdges(s)}

\* C4: area() is the same before and after any sequence of flips, and it
\* counts every face exactly once, at its half edge of smallest index.
C4_AreaInvariant ==
  deformed # "null" =>
    /\ area(D) = area(heap["S"])
    /\ \A triangle \in Faces(D) :
         /\ Cardinality(triangle \cap areaCounted(D)) = 1
         /\ \A e \in triangle \cap areaCounted(D) : \A h \in triangle : index(e) <= index(h)

\* Two flips have changed the clone.
C4_Witness ==
  /\ pc = "idle"
  /\ prevCall.op = "flip" /\ prevCall.error = "ok"
  /\ lastCall.op = "flip" /\ lastCall.error = "ok"
  /\ D.vectors # heap["S"].vectors
  /\ area(D) > 0

\* The permutation perm is a bijection of the half edges H.
Bijection(perm, H) ==
  /\ DOMAIN perm = H
  /\ \A h \in H : perm[h] \in H
  /\ \A g, h \in H : perm[g] = perm[h] => g = h

\* The cycles of the permutation perm.
Cycles(perm) == {Orbit(perm, h, {}) : h \in DOMAIN perm}

\* C5: after any sequence of flip, insertAt and collapse, nextInFace and
\* nextAtVertex are bijections of the half edges with previousInFace and
\* previousAtVertex as inverses, every face has exactly three half edges,
\* every half edge lies in exactly one vertex cycle and one face cycle, and
\* the two permutations are dual: nextAtVertex(h) = -previousInFace(h) and
\* nextInFace(h) = previousAtVertex(-h).
C5_CombinatoricsConsistent ==
  \E s \in {combinatorial} :
  \E H \in {halfEdges(s)} :
      /\ \A h \in H : h # 0 /\ -h \in H
      /\ Bijection(s.faces, H)
      /\ Bijection(s.vertices, H)
      /\ \A h \in H :
           /\ previousInFace(s, nextInFace(s, h)) = h
           /\ nextInFace(s, previousInFace(s, h)) = h
           /\ previousAtVertex(s, nextAtVertex(s, h)) = h
           /\ nextAtVertex(s, previousAtVertex(s, h)) = h
      /\ \A cycle \in Cycles(s.faces) :
           /\ Cardinality(cycle) = 3
           /\ \A h \in cycle : nextInFace(s, nextInFace(s, nextInFace(s, h))) = h
      /\ \A cycles \in {Cycles(s.faces), Cycles(s.vertices)} :
           /\ UNION cycles = H
           /\ \A c1, c2 \in cycles : c1 # c2 => c1 \cap c2 = {}
      /\ \A h \in H :
           /\ nextAtVertex(s, h) = -previousInFace(s, h)
           /\ nextInFace(s, h) = previousAtVertex(s, -h)

\* A vertex has been inserted and an edge at it collapsed, which leaves a
\* triangulation with as many half edges as before and other labels.
C5_Witness ==
  /\ mutations = MaxMutations
  /\ Cardinality(halfEdges(combinatorial)) = Cardinality(halfEdges(heap["S"]))
  /\ combinatorial.faces # heap["S"].faces
  /\ \E h \in halfEdges(heap["S"]) : h \notin halfEdges(combinatorial)

\* C6: delaunay() terminates, and when it has returned no edge of the
\* triangulation is NON_DELAUNAY.
C6_DelaunayTerminates ==
  /\ [](pc = "delaunay" => <>(pc = "idle" /\ lastCall.op = "delaunay" /\ result = "ok"))
  /\ []((pc = "idle" /\ lastCall.op = "delaunay") =>
          /\ result = "ok"
          /\ \A e \in edges(D) : delaunay(D, e) # "NON_DELAUNAY")

\* delaunay() has returned after flipping at least one edge.
C6_Witness ==
  /\ pc = "idle"
  /\ lastCall.op = "delaunay"
  /\ result = "ok"
  /\ D # lastCall.before
  /\ \E e \in edges(lastCall.before) : delaunay(lastCall.before, e) = "NON_DELAUNAY"

----------------------------------------------------------------------------
(* Properties of points.                                                   *)

S == heap["S"]

\* The number of positive coordinates of a point.
positives(p) ==
  (IF p.a > 0 THEN 1 ELSE 0) + (IF p.b > 0 THEN 1 ELSE 0) + (IF p.c > 0 THEN 1 ELSE 0)

\* The face of the half edge f contains the point p: f is a side of the
\* face of p, or p lies on an edge one of whose half edges is a side of the
\* face of f, or p is a vertex that is a corner of the face of f.
Contains(s, f, p) ==
  LET sides(g) == {g, nextInFace(s, g), nextInFace(s, nextInFace(s, g))}
  IN  \/ f \in sides(p.face)
      \/ positives(p) = 2 /\ -p.face \in sides(f)
      \/ positives(p) = 1 /\ \E side \in sides(f) : p.face \in Orbit(s.vertices, side, {})

\* C7: the point built from point.coordinates(face_) in face_ equals the
\* point, for every half edge face_ whose face contains the point, and
\* coordinates(face_) fails, with invalid-argument, exactly when the face of
\* face_ does not contain the point.
C7_CoordinatesRoundtrip ==
  /\ pointState \in {"coordinates", "roundtrip"} =>
       /\ Contains(S, face_, point) <=> coordinates_.error = "ok"
       /\ ~Contains(S, face_, point) <=> coordinates_.error = "invalid_argument"
  /\ pointState = "roundtrip" => PointEq(S, point, point_)

\* A point on an edge has made the round trip through the face on the
\* other side of that edge.
C7_Witness ==
  /\ pointState = "roundtrip"
  /\ positives(point) = 2
  /\ face_ \notin {point.face, nextInFace(S, point.face), previousInFace(S, point.face)}
  /\ point_.face # point.face

\* C8: a point constructed from non-negative coordinates that are not all
\* zero is stored with non-negative coordinates, at least one positive;
\* exactly one is positive iff vertex() is defined, at most two are positive
\* iff edge() is defined, an edge or vertex point has the form (a, b, 0) with
\* a > 0, and normalize() rotated the face at most twice.
C8_CanonicalForm ==
  pointState = "point" =>
    /\ point.a >= 0 /\ point.b >= 0 /\ point.c >= 0
    /\ positives(point) # 0
    /\ (positives(point) = 1) <=> (vertex(S, point) # nullopt)
    /\ (positives(point) <= 2) <=> (pointEdge(S, point) # nullopt)
    /\ positives(point) <= 2 => (point.a > 0 /\ point.c = 0)
    /\ rotations <= 2

\* A vertex point that normalize() rotated twice.
C8_Witness ==
  /\ pointState = "point"
  /\ positives(point) = 1
  /\ rotations = 2

----------------------------------------------------------------------------
(* Properties of operator+.                                                *)

\* Nothing happens to the triangulation while it is shifted: no edge is
\* collinear with its shift, and every face keeps a positive area up to
\* and including the end of the shift.
undisturbed(s, shift) ==
  /\ ~collapsesEarly(s, shift)
  /\ collapsingAt(s, shift) = {}
  /\ \A he \in halfEdges(s) : detPositive(determinant(s, shift, he))

\* The test "Stretch an L": shift.set(HalfEdge(8), R2(0, 1)) and
\* shift.set(HalfEdge(7), R2(0, 1)).
StretchL == set(set(zeroShift(L), 8, <<0, 1>>), 7, <<0, 1>>)

flippedEdges(relations) ==
  {relations[i].flip : i \in {i \in 1..Len(relations) : relations[i].relation = "flip"}}
    \cup {-relations[i].flip : i \in {i \in 1..Len(relations) : relations[i].relation = "flip"}}

\* The relations begin with the shift by shift / 2^k, for the largest
\* fraction 1/2, 1/4, ... that is before the root of det; sum.scale is the
\* number of units of the relations in one unit of s.
beginsWithPartial(s, shift, det, k, sum) ==
  /\ k >= 1
  /\ positiveUntil(det, 1, 2^k)
  /\ \A j \in 1..(k - 1) : ~positiveUntil(det, 1, 2^j)
  /\ sum.relations[1].relation = "shift"
  /\ domain(sum.relations) = scaled(s, sum.scale)
  /\ halfEdges(sum.relations[1].codomain) = halfEdges(s)
  /\ \A he \in halfEdges(s) : \A i \in 1..2 :
       (2^k) * fromHalfEdge(sum.relations[1].codomain, he)[i]
         = sum.scale * ((2^k) * fromHalfEdge(s, he)[i] + shift[he][i])

\* Every half edge that is there at the end and has not been flipped has
\* been displaced by its shift.
displacedByShift(s, shift, sum) ==
  \A he \in halfEdges(codomain(sum.relations)) \ flippedEdges(sum.relations) : \A i \in 1..2 :
    fromHalfEdge(codomain(sum.relations), he)[i] = sum.scale * (fromHalfEdge(s, he)[i] + shift[he][i])

\* The marked point of the marked torus, at (2, 1) in the face (1 2 3), is
\* moved by (-1, -1), onto the edge 1.
OntoEdge == moved(MarkedTorus, source(-4, MarkedTorus), <<-1, -1>>)

missesVertices(p, w) ==
  \A x \in {-3, 0, 3, 6} : \A y \in {-3, 0, 3, 6} :
    ~ /\ (x - p[1]) * w[2] = (y - p[2]) * w[1]
      /\ (x - p[1]) * w[1] + (y - p[2]) * w[2] > 0
      /\ (x - p[1]) * w[1] + (y - p[2]) * w[2] < w[1] * w[1] + w[2] * w[2]

\* The shifts that are known to lead to a surface all along: on a surface
\* with two vertices, a torus of side 3 with a marked point, the moves of a
\* vertex by w that meet no vertex before their end; on a torus with one
\* vertex the shifts under which the area of the faces stays positive; on
\* other surfaces the shifts that disturb nothing.
Admissible(s, shift) ==
  IF Cardinality(vertices(s)) = 2
  THEN \E he \in halfEdges(s) : \E w \in Displacements :
         /\ source(he, s) # source(-he, s)
         /\ shift = moved(s, source(-he, s), w)
         /\ missesVertices(fromHalfEdge(s, he), w)
  ELSE IF Cardinality(halfEdges(s)) = 6
  THEN /\ closed(s, shift)
       /\ \A he \in halfEdges(s) : detPositive(determinant(s, shift, he))
  ELSE undisturbed(s, shift)

\* C13: operator+ comes to an end for every admissible shift: it does not
\* go on halving and calling itself until the model cuts it off, also when
\* the vertex gets onto the edge exactly at the end of the shift and when
\* a flip is skipped because the edge is not strictly convex.
C13_Terminates ==
  (shifted.error # "none" /\ Admissible(receiver, shift_)) => shifted.error # "exhausted"

\* A flip has been skipped and the shift came to its end after further
\* flips, in four steps of halving or more.
C13_Witness ==
  /\ Admissible(receiver, shift_)
  /\ shifted.error = "ok"
  /\ shifted.skipped >= 1
  /\ shifted.scale >= 8
  /\ Cardinality(flippedEdges(shifted.relations)) >= 4

----------------------------------------------------------------------------
(* Properties of eliminateMarkedPoints().                                  *)

\* The numbers go down strictly.
decreasing(sizes) == \A i \in 1..(Len(sizes) - 1) : sizes[i + 1] < sizes[i]

\* C14 as stated: eliminateMarkedPoints() returns, every step has reduced
\* the number of vertices, and no vertex of the codomain has angle 1.
C14_NoMarkedPointLeft ==
  eliminated.error # "none" =>
    /\ eliminated.error = "ok"
    /\ decreasing(eliminated.sizes)
    /\ \A v \in vertices(eliminated.codomain) : angle(eliminated.codomain, v) # 1

\* C14, amended: eliminateMarkedPoints() returns, every step has reduced
\* the number of vertices, and a vertex of angle 1 is left in the codomain
\* only as its single vertex.
C14_NoMarkedPointButTheLast ==
  eliminated.error # "none" =>
    /\ eliminated.error = "ok"
    /\ decreasing(eliminated.sizes)
    /\ eliminated.sizes[1] = Cardinality(vertices(eliminated.domain))
    /\ eliminated.sizes[Len(eliminated.sizes)] = Cardinality(vertices(eliminated.codomain))
    /\ \A v \in vertices(eliminated.codomain) :
         angle(eliminated.codomain, v) = 1 => vertices(eliminated.codomain) = {v}

\* The marked point of the marked torus has been eliminated, and the single
\* vertex that is left has angle 1.
C14_Witness ==
  /\ eliminated.error = "ok"
  /\ eliminated.domain = MarkedTorus
  /\ eliminated.sizes = <<2, 1>>
  /\ \E v \in vertices(eliminated.codomain) : angle(eliminated.codomain, v) = 1

----------------------------------------------------------------------------
(* Properties of isomorphism().                                            *)

\* phi is an isomorphism from s to other with the matrix (a b c d): a
\* bijection of the half edges, none of its pairs rejected, compatible with
\* negation, with the faces (in the opposite sense when the determinant is
\* negative) and with the vectors, and the matrix is accepted.
isIsomorphism(s, other, filter, rejected, a, b, c, d, phi) ==
  /\ filterMatrix(filter, a, b, c, d)
  /\ DOMAIN phi = halfEdges(s)
  /\ {phi[h] : h \in halfEdges(s)} = halfEdges(other)
  /\ \A h \in halfEdges(s) : \A g \in halfEdges(s) : phi[h] = phi[g] => h = g
  /\ \A h \in halfEdges(s) :
       /\ <<h, phi[h]>> \notin rejected
       /\ phi[-h] = -phi[h]
       /\ fromHalfEdge(other, phi[h])
            = <<a * fromHalfEdge(s, h)[1] + b * fromHalfEdge(s, h)[2],
                c * fromHalfEdge(s, h)[1] + d * fromHalfEdge(s, h)[2]>>
       /\ IF a * d - b * c > 0
          THEN phi[nextInFace(s, h)] = nextInFace(other, phi[h])
          ELSE nextInFace(other, -phi[nextInFace(s, h)]) = -phi[h]

\* The matrix over the integers that takes v to y and w to z, v and w
\* spanning the plane, if there is one: Cramer's rule, kept when the
\* quotients are exact.
cramer(v, w, y, z) ==
  LET det == v[1] * w[2] - v[2] * w[1]
      quotient(x) == (sgn(det) * x) \div (sgn(det) * det)
  IN  {m \in {<<quotient(y[1] * w[2] - z[1] * v[2]), quotient(z[1] * v[1] - y[1] * w[1]),
                 quotient(y[2] * w[2] - z[2] * v[2]), quotient(z[2] * v[1] - y[2] * w[1])>>} :
        /\ y = <<m[1] * v[1] + m[2] * v[2], m[3] * v[1] + m[4] * v[2]>>
        /\ z = <<m[1] * w[1] + m[2] * w[2], m[3] * w[1] + m[4] * w[2]>>}

\* The pairs that a map of the half edges must hold with the pairs given,
\* to be compatible with negation and with the faces, in the same sense or
\* reversed: the successor of h in its face goes to the successor of the
\* image, or to the negative of the half edge before the negative of it.
RECURSIVE forced(_, _, _, _)
forced(s, other, reversed, pairs) ==
  CHOOSE all \in
    {IF more = pairs THEN pairs ELSE forced(s, other, reversed, more) :
       more \in {pairs \cup {<<-p[1], -p[2]>> : p \in pairs}
                       \cup {<<nextInFace(s, p[1]),
                               IF reversed
                               THEN -(CHOOSE x \in halfEdges(other) : nextInFace(other, x) = -p[2])
                               ELSE nextInFace(other, p[2])>> : p \in pairs}}} : TRUE

\* There are a matrix and an isomorphism from s to other with it.  The
\* surface being connected, a map compatible with negation and faces is
\* known from the image y of the half edge 1 and from the sense; the matrix
\* is known from what becomes of the half edge 1 and of its successor in the
\* face, whose vectors span the plane.
isomorphismExists(s, other, filter, rejected) ==
  /\ Cardinality(halfEdges(s)) = Cardinality(halfEdges(other))
  /\ hasBoundary(s) = hasBoundary(other)
  /\ \E y \in halfEdges(other) :
     \E reversed \in BOOLEAN :
     \E z \in {IF reversed
               THEN -(CHOOSE x \in halfEdges(other) : nextInFace(other, x) = -y)
               ELSE nextInFace(other, y)} :
     \E m \in cramer(fromHalfEdge(s, 1), fromHalfEdge(s, nextInFace(s, 1)),
                     fromHalfEdge(other, y), fromHalfEdge(other, z)) :
       /\ reversed <=> m[1] * m[4] <= m[2] * m[3]
       /\ \A h \in halfEdges(s) : \E g \in halfEdges(other) :
            fromHalfEdge(other, g) = <<m[1] * fromHalfEdge(s, h)[1] + m[2] * fromHalfEdge(s, h)[2],
                                       m[3] * fromHalfEdge(s, h)[1] + m[4] * fromHalfEdge(s, h)[2]>>
       /\ \E pairs \in {forced(s, other, reversed, {<<1, y>>})} :
            /\ \A h \in halfEdges(s) : Cardinality({p \in pairs : p[1] = h}) = 1
            /\ \E phi \in {[h \in halfEdges(s) |-> CHOOSE g \in halfEdges(other) : <<h, g>> \in pairs]} :
                 isIsomorphism(s, other, filter, rejected, m[1], m[2], m[3], m[4], phi)

\* C15: isomorphism(other, FACES, filterMatrix, filterHalfEdgeMap) returns
\* a deformation exactly if there are a matrix that filterMatrix accepts
\* and a bijection of the half edges, its pairs accepted by
\* filterHalfEdgeMap, that is compatible with negation, faces (reversed for
\* a negative determinant) and vectors; what it returns is such a matrix
\* and bijection; and it returns nullopt when the numbers of half edges
\* differ.
C15_IsomorphismIffExists ==
  isomorphic.called =>
    /\ isomorphic.deformation.error = "ok"
    /\ Cardinality(halfEdges(isomorphic.this)) # Cardinality(halfEdges(isomorphic.other))
         => ~isomorphic.deformation.found
    /\ isomorphic.deformation.found =>
         isIsomorphism(isomorphic.this, isomorphic.other, isomorphic.filterMatrix, isomorphic.rejected,
                       isomorphic.deformation.a, isomorphic.deformation.b,
                       isomorphic.deformation.c, isomorphic.deformation.d,
                       isomorphic.deformation.isomorphism)
    /\ isomorphic.deformation.found
         <=> isomorphismExists(isomorphic.this, isomorphic.other,
                               isomorphic.filterMatrix, isomorphic.rejected)

\* A surface that is not its own mirror image has been found isomorphic to
\* a renamed reflection of it, by a map that does not take the half edge 1
\* to itself, while some pairs were rejected.
C15_Witness ==
  /\ isomorphic.called
  /\ isomorphic.this \notin Surfaces
  /\ isomorphic.deformation.found
  /\ isomorphic.deformation.a * isomorphic.deformation.d < isomorphic.deformation.b * isomorphic.deformation.c
  /\ isomorphic.deformation.isomorphism[1] # 1
  /\ isomorphic.rejected # {}

----------------------------------------------------------------------------
(* Properties of insertAt().                                               *)

\* The cross product.
cross(v, w) == v[1] * w[2] - v[2] * w[1]

\* The difference of two vectors.
minus(v, w) == <<v[1] - w[1], v[2] - w[2]>>

\* Where v ends when it is not longer than w, which has its direction.
along(v, w, before) ==
  IF v[1] * v[1] + v[2] * v[2] < w[1] * w[1] + w[2] * w[2] THEN before
  ELSE IF v = w THEN "atVertex"
  ELSE "crossesVertex"

\* The segment from the origin to v has entered, between the vertices at
\* right and left, the face of the half edge h, which goes from left to
\* right; the faces are laid out in the plane one after the other.  Where
\* the segment ends: "insideFace", "onEdge", "atVertex"; or "crossesVertex".
RECURSIVE unfolded(_, _, _, _, _, _)
unfolded(s, v, right, left, h, fuel) ==
  LET corner == Plus(right, fromHalfEdge(s, nextInFace(s, h)))
  IN  IF fuel = 0 THEN "unknown"
      ELSE IF cross(v, corner) = 0 THEN along(v, corner, "insideFace")
      ELSE IF cross(v, corner) > 0
      THEN IF cross(minus(corner, right), minus(v, right)) > 0 THEN "insideFace"
           ELSE IF cross(minus(corner, right), minus(v, right)) = 0 THEN "onEdge"
           ELSE unfolded(s, v, right, corner, -nextInFace(s, h), fuel - 1)
      ELSE IF cross(minus(left, corner), minus(v, corner)) > 0 THEN "insideFace"
           ELSE IF cross(minus(left, corner), minus(v, corner)) = 0 THEN "onEdge"
           ELSE unfolded(s, v, corner, left, -nextInFace(s, nextInFace(s, h)), fuel - 1)

\* Where the vector v, drawn from the source of nextTo into the sector
\* next to it, ends: "outside" the sector, on "nextTo", or as above.
lands(s, nextTo, v) ==
  LET right == fromHalfEdge(s, nextTo)
      left == Minus(fromHalfEdge(s, nextInFace(s, nextInFace(s, nextTo))))
  IN  IF cross(right, v) < 0 \/ cross(v, left) <= 0 THEN "outside"
      ELSE IF cross(right, v) = 0 THEN along(v, right, "nextTo")
      ELSE IF cross(minus(left, right), minus(v, right)) > 0 THEN "insideFace"
      ELSE IF cross(minus(left, right), minus(v, right)) = 0 THEN "onEdge"
      ELSE unfolded(s, v, right, left, -nextInFace(s, nextTo), 4 * MaxFlips)

\* The deformation returned goes from the unchanged receiver to a valid
\* triangulation with one more vertex, the new one of angle 1 and with n
\* outgoing half edges, to which a half edge with the vector leads from the source of
\* nextTo, which nextTo, as the call leaves it, still leaves: the call turns
\* nextTo about its source and flips neither it nor its negative before
\* the insertion.
insertedWith(n) ==
  /\ insertion.deformation.error = "ok"
  /\ insertion.deformation.domain = insertion.this
  /\ insertion.this \in Insertable(heap["S"])
  /\ Valid(insertion.deformation.codomain)
  /\ Cardinality(vertices(insertion.deformation.codomain)) = Cardinality(vertices(insertion.this)) + 1
  /\ \E new \in halfEdges(insertion.deformation.codomain) \ halfEdges(insertion.this) :
       /\ angle(insertion.deformation.codomain, source(new, insertion.deformation.codomain)) = 1
       /\ -new \notin source(new, insertion.deformation.codomain)
       /\ Cardinality(source(new, insertion.deformation.codomain)) = n
       /\ fromHalfEdge(insertion.deformation.codomain, -new) = insertion.vector
       /\ insertion.deformation.nextTo \in source(-new, insertion.deformation.codomain)

\* C16 as stated: a vector in the sector that neither crosses nor ends at
\* a vertex is inserted, with 3 half edges at the new vertex when it ends
\* inside a face and 4 when it ends on an edge; a vector outside the sector
\* or crossing a vertex is an invalid argument; one ending at a vertex is
\* not implemented.
C16_FourOnAnyEdge ==
  insertion.called =>
    \E where \in {lands(insertion.this, insertion.nextTo, insertion.vector)} :
      /\ where \in {"outside", "crossesVertex"} => insertion.deformation.error = "invalid_argument"
      /\ where = "atVertex" => insertion.deformation.error = "logic_error"
      /\ where = "insideFace" => insertedWith(3)
      /\ where \in {"onEdge", "nextTo"} => insertedWith(4)
      /\ where # "unknown"

\* The vector ends strictly inside the face of nextTo.
inFaceOf(s, nextTo, v) ==
  /\ cross(fromHalfEdge(s, nextTo), v) > 0
  /\ cross(fromHalfEdge(s, nextInFace(s, nextTo)), minus(v, fromHalfEdge(s, nextTo))) > 0
  /\ cross(fromHalfEdge(s, nextInFace(s, nextInFace(s, nextTo))), v) > 0

\* In the codomain an edge goes on from the new vertex in the direction of
\* the vector.
continued ==
  \E e \in halfEdges(insertion.deformation.codomain) :
    /\ fromHalfEdge(insertion.deformation.codomain, -e) = insertion.vector
    /\ e \notin halfEdges(insertion.this)
    /\ \E onward \in source(e, insertion.deformation.codomain) :
         /\ cross(fromHalfEdge(insertion.deformation.codomain, onward), insertion.vector) = 0
         /\ orientation(fromHalfEdge(insertion.deformation.codomain, onward), insertion.vector) = "SAME"

\* C16, amended: a vector in the sector that neither crosses nor ends at a
\* vertex is inserted; the new vertex has 4 outgoing half edges when the
\* vector ends on the edge of nextTo and 3 when it ends inside the face of
\* nextTo; when it leaves that face, the edges in its way are flipped, and
\* the new vertex has 4 outgoing half edges if an edge of the codomain goes
\* on from it in the direction of the vector, and 3 if none does, wherever
\* the vector ends in the receiver.  The errors are as stated.
C16_FourAlongNextTo ==
  insertion.called =>
    \E where \in {lands(insertion.this, insertion.nextTo, insertion.vector)} :
      /\ where \in {"outside", "crossesVertex"} => insertion.deformation.error = "invalid_argument"
      /\ where = "atVertex" => insertion.deformation.error = "logic_error"
      /\ where \in {"insideFace", "onEdge", "nextTo"} =>
           IF continued THEN insertedWith(4) ELSE insertedWith(3)
      /\ where = "nextTo" => insertedWith(4)
      /\ inFaceOf(insertion.this, insertion.nextTo, insertion.vector) =>
           where = "insideFace" /\ insertedWith(3) /\ insertion.deformation.flips = 0
      /\ where # "unknown"

\* A vector that ends on an edge of the marked torus, not the one of
\* nextTo, has been inserted after two flips or more, and three half edges
\* leave the new vertex.
C16_Witness ==
  /\ insertion.called
  /\ insertion.this \in Insertable(MarkedTorus)
  /\ lands(insertion.this, insertion.nextTo, insertion.vector) = "onEdge"
  /\ insertion.deformation.flips >= 2
  /\ insertedWith(3)

----------------------------------------------------------------------------
(* Properties of EquivalenceClass.                                         *)

\* The automorphisms of the combinatorics of a surface that keep the sense
\* of the faces: the images of the half edge 1 from which the forced map is
\* a bijection of the half edges compatible with negation and faces.
automorphismsOf(s) ==
  {y \in halfEdges(s) :
     \E pairs \in {forced(s, s, FALSE, {<<1, y>>})} :
       /\ \A h \in halfEdges(s) : Cardinality({p \in pairs : p[1] = h}) = 1
       /\ \A h \in halfEdges(s) : Cardinality({p \in pairs : p[2] = h}) = 1}

\* C17 as stated: for the square torus under the oriented combinatorial
\* equivalence, the code is that of each of its rotations, and
\* automorphisms() is 4.
C17_FourAutomorphisms ==
  equivalent.called /\ equivalent.surface = Torus /\ equivalent.class.equivalence =>
    /\ equivalent.class.code = equivalent.otherClass.code
    /\ equivalent.class.automorphisms = 4

\* C17, amended: for the square torus under the oriented combinatorial
\* equivalence, the code is that of each of its rotations, and
\* automorphisms() is 6: each of the 6 walkers has the least word, as the
\* two triangles have 6 automorphisms.  On every surface the codes of the
\* rotations are the same and automorphisms() is the number of
\* automorphisms of the combinatorics.
C17_SixAutomorphisms ==
  equivalent.called =>
    /\ equivalent.class.code = equivalent.otherClass.code
    /\ equivalent.class.automorphisms = equivalent.otherClass.automorphisms
    /\ equivalent.class.equivalence =>
         equivalent.class.automorphisms = Cardinality(automorphismsOf(equivalent.surface))
    /\ equivalent.surface = Torus /\ equivalent.class.equivalence =>
         equivalent.class.automorphisms = 6

\* The classes of the square torus and of a quarter turn of it, renamed,
\* have been built for the oriented equivalence.
C17_Witness ==
  /\ equivalent.called
  /\ equivalent.surface = Torus
  /\ equivalent.class.equivalence
  /\ equivalent.other.vectors # Torus.vectors
  /\ equivalent.other.vertices # Torus.vertices
  /\ equivalent.class.automorphisms = 6

----------------------------------------------------------------------------
(* Properties of the constructor of Point.                                 *)

\* The constructor of Point threw for the arguments it was called with.
threw == pointState \in {"invalid_argument", "logic_error"}

unnormalizable(p) == p.a + p.b + p.c = 0 \/ p.a < 0 \/ p.b < 0 \/ p.c < 0

\* C18 as stated: a Point cannot be constructed from coordinates that sum
\* to zero or one of which is negative; the constructor fails with an
\* invalid-argument error and there is no point.
C18_InvalidArgument ==
  /\ threw <=> (pointState # "none" /\ unnormalizable(arguments))
  /\ threw => (pointState = "invalid_argument" /\ point = NoPoint /\ compared = NoPoint)

\* C18: a Point cannot be constructed from coordinates that sum to zero or
\* one of which is negative, and there is no point then; the constructor
\* fails with an invalid-argument error when the coordinates sum to zero and
\* with a logic error, as not implemented, when they do not sum to zero and
\* one of them is negative.
C18_InvalidArgumentOrNotImplemented ==
  /\ threw <=> (pointState # "none" /\ unnormalizable(arguments))
  /\ threw => (point = NoPoint /\ compared = NoPoint)
  /\ pointState = "invalid_argument" <=>
       (pointState # "none" /\ arguments.a + arguments.b + arguments.c = 0)
  /\ pointState = "logic_error" <=>
       /\ pointState # "none"
       /\ arguments.a + arguments.b + arguments.c # 0
       /\ arguments.a < 0 \/ arguments.b < 0 \/ arguments.c < 0

\* The constructor was called with a negative coordinate and a positive
\* sum, and threw the logic error.
C18_Witness ==
  /\ pointState = "logic_error"
  /\ arguments.a < 0
  /\ arguments.a + arguments.b + arguments.c > 0
  /\ point = NoPoint

----------------------------------------------------------------------------
(* Properties of the equality of points.                                   *)

\* The coordinates that the compared point was constructed from are the
\* coordinates stored for point, all multiplied or all divided by k.
multiplied(k) ==
  /\ arguments.face = point.face
  /\ \/ <<arguments.a, arguments.b, arguments.c>> = <<k * point.a, k * point.b, k * point.c>>
     \/ <<k * arguments.a, k * arguments.b, k * arguments.c>> = <<point.a, point.b, point.c>>

\* The compared point was constructed in the half edge -e from the
\* coordinates of point in the half edge e, the first two exchanged.
exchanged(e) ==
  /\ arguments.face = -e
  /\ arguments.c = 0
  /\ LET abc == coordinates(S, point, e).abc
     IN  arguments.a = abc[2] /\ arguments.b = abc[1]

\* The compared point was constructed at the vertex of point, in any half
\* edge that leaves the vertex.
sameVertex ==
  /\ point.b = 0 /\ point.c = 0
  /\ arguments.b = 0 /\ arguments.c = 0
  /\ arguments.face \in vertex(S, point)

\* C19: the equality of points does not depend on how the points are
\* represented and is reflexive and symmetric: p == p; p == q exactly when
\* q == p; a point at a vertex equals Point(S, h, a, 0, 0) for every half
\* edge h that leaves the vertex; a point on the edge e whose coordinates in
\* e are (a, b, 0) equals Point(S, -e, b, a, 0); and a point equals the
\* point with all coordinates multiplied by a positive number.
C19_EqualityOfPoints ==
  /\ pointState = "point" =>
       /\ PointEq(S, point, point)
       /\ \A e \in pointEdge(S, point) :
            \E here \in {coordinates(S, point, e)} : here.error = "ok" /\ here.abc[3] = 0
  /\ pointState = "compared" =>
       \E forth \in {PointEq(S, point, compared)}, back \in {PointEq(S, compared, point)} :
         /\ forth = back
         /\ sameVertex => forth
         /\ \A e \in pointEdge(S, point) : exchanged(e) => forth
         /\ \A k \in 1..MaxCoordinate : multiplied(k) => forth

\* A point on an edge, nearer to one end than to the other, has been found
\* equal to the point constructed in the other half edge of that edge from
\* the exchanged coordinates, which are stored in another half edge.
C19_Witness ==
  /\ pointState = "compared"
  /\ positives(point) = 2
  /\ point.a # point.b
  /\ exchanged(point.face)
  /\ compared.face # point.face
  /\ PointEq(S, point, compared)
  /\ PointEq(S, compared, point)

----------------------------------------------------------------------------
(* Properties of the classification of a flipped edge.                     *)

\* The last call was flip(e) on a valid triangulation for a half edge e of
\* an edge that delaunay(Edge) classified as NON_DELAUNAY.
flippedNonDelaunay ==
  /\ lastCall.op = "flip"
  /\ Valid(lastCall.before)
  /\ \E e \in {positive(Edge(lastCall.e))} : delaunay(lastCall.before, e) = "NON_DELAUNAY"

\* C20: when an edge of a valid triangulation is classified NON_DELAUNAY,
\* flip() of either of its half edges succeeds and the edge is classified
\* DELAUNAY or AMBIGUOUS afterwards, never NON_DELAUNAY.
C20_FlippedIsDelaunay ==
  flippedNonDelaunay =>
    /\ lastCall.error = "ok"
    /\ \E e \in {positive(Edge(lastCall.e))} : delaunay(D, e) \in {"DELAUNAY", "AMBIGUOUS"}

\* flip(-e) has been called for a NON_DELAUNAY edge e that an earlier flip
\* had made, and has made it DELAUNAY.
C20_Witness ==
  /\ flippedNonDelaunay
  /\ lastCall.e < 0
  /\ prevCall.op = "flip"
  /\ prevCall.error = "ok"
  /\ lastCall.error = "ok"
  /\ delaunay(D, -lastCall.e) = "DELAUNAY"

----------------------------------------------------------------------------
(* Properties of the construction from a list of vectors.                  *)

\* The surface that the list of vectors describes on the combinatorics of
\* S, as far as the list reaches.
described(h) ==
  IF h > 0 THEN constructed.vectors[h] ELSE Minus(constructed.vectors[-h])

\* Every face whose sides all have a vector in the list is closed, has no
\* zero side and is positively oriented.
wellFormed ==
  \A h \in halfEdges(S) :
    \E f \in {face(S, h)} :
      (\A i \in 1..3 : f[i] \in HalfEdgesOf(Len(constructed.vectors))) =>
        /\ described(f[1]) # Zero
        /\ Plus(Plus(described(f[1]), described(f[2])), described(f[3])) = Zero
        /\ ccw(described(f[1]), described(f[2])) = "COUNTERCLOCKWISE"

\* C21: the construction fails with an invalid-argument error whenever
\* the list has not exactly one vector for each edge, too few or too many,
\* and whenever a face is not closed, a vector is zero or a face is not
\* positively oriented; a surface that was constructed has
\* vector(-h) = -vector(h) for every half edge h.
C21_InvalidArgument ==
  constructed.called =>
    /\ Len(constructed.vectors) # Cardinality(edges(S)) => constructed.error = "invalid_argument"
    /\ ~wellFormed => constructed.error = "invalid_argument"
    /\ constructed.error = "ok" =>
         \A h \in halfEdges(S) :
           fromHalfEdge(constructed.surface, -h) = Minus(fromHalfEdge(constructed.surface, h))

\* The list is the vectors of the surface without the last one: the
\* construction ends with the std::out_of_range of vectors.at().
C21_TooShort ==
  /\ constructed.called
  /\ constructed.vectors = [i \in 1..(Cardinality(edges(S)) - 1) |-> S.vectors[i]]
  /\ constructed.error = "out_of_range"

----------------------------------------------------------------------------
(* Properties of the selection of the flip in operator+.                   *)

\* The flips that the loops over the vertices and their outgoing half edges
\* can end with, over all the orders in which the proposals can come.
RECURSIVE selections(_, _)
selections(proposals, flip_) ==
  IF proposals = {} THEN {flip_}
  ELSE UNION {selections(proposals \ {proposed}, keep(flip_, proposed)) : proposed \in proposals}

\* The times n / d of (0, 1] with d <= MaxDenominator.
MaxDenominator == 8

\* The root of lhs is not later than the root of rhs, as far as the times
\* n / d tell: whenever lhs has not yet vanished, rhs has not either.
notLaterOnGrid(lhs, rhs) ==
  \A d \in 1..MaxDenominator : \A n \in 1..d :
    positiveUntil(lhs, n, d) => positiveUntil(rhs, n, d)

\* C22: the flip that operator+ selects is one whose critical time, the
\* root in (0, 1] of its determinant, is the smallest among the flips
\* required, in whatever order the vertices and their outgoing half edges
\* are gone through; flips selected for different orders have the same
\* critical time.
C22_EarliestFlipSelected ==
  shifted.error # "none" =>
    \E proposals \in {analysis(receiver, shift_).proposals} :
    \E selected \in {selections(proposals, NoFlip)} :
      /\ proposals = {} <=> NoFlip \in selected
      /\ proposals # {} =>
           /\ selected \subseteq proposals
           /\ proposedFlip(proposals) \in selected
           /\ \A flip_ \in selected : \A other \in proposals :
                /\ ~rootLess(other.det, flip_.det)
                /\ notLaterOnGrid(flip_.det, other.det)

\* Two flips were required with different critical times, and operator+
\* went on with the earlier one and came to its end.
C22_Witness ==
  /\ shifted.error = "ok"
  /\ \E proposals \in {analysis(receiver, shift_).proposals} :
       /\ Cardinality(proposals) >= 2
       /\ \E late \in proposals : rootLess(proposedFlip(proposals).det, late.det)

----------------------------------------------------------------------------
(* Properties of the half edges that vanish under a shift.                 *)

\* Some half edge he of s has he + t * shift(he) = 0 at a time t = d / n
\* strictly between 0 and 1.
vanishesInside(s, shift) ==
  \E he \in halfEdges(s) : \E n \in 2..MaxDenominator : \E d \in 1..(n - 1) :
    /\ n * fromHalfEdge(s, he)[1] + d * shift[he][1] = 0
    /\ n * fromHalfEdge(s, he)[2] + d * shift[he][2] = 0

\* The half edges he of s with he + shift(he) = 0.
vanishingAtEnd(s, shift) ==
  {he \in halfEdges(s) : Plus(fromHalfEdge(s, he), shift[he]) = Zero}

\* What the claim says of a call that returned: the recorded half edges are
\* the ones that vanish at t = 1, they are not in the codomain, no other
\* edge was collapsed when nothing was flipped (a collapse takes the edge
\* and makes one edge of the two other sides of each of its two faces), and
\* the codomain is a valid triangulation.
collapsedAsRecorded ==
  /\ collapsingAt(receiver, shift_) = vanishingAtEnd(receiver, shift_)
  /\ shifted.error = "ok" =>
       \E reached \in {codomain(shifted.relations)} :
         /\ Valid(reached)
         /\ halfEdges(reached) \subseteq halfEdges(receiver)
         /\ halfEdges(reached) \cap vanishingAtEnd(receiver, shift_) = {}
         /\ Len(shifted.relations) = 1 =>
              Cardinality(halfEdges(reached)) =
                Cardinality(halfEdges(receiver)) - 3 * Cardinality(vanishingAtEnd(receiver, shift_))

----------------------------------------------------------------------------
(* Properties of the choice made by eliminateMarkedPoints().               *)

\* The vertices of total angle 2 pi with outgoing half edges to a different
\* vertex, and those half edges.
targets(s, v) == {he \in v : source(-he, s) # v}

movable(s) == {v \in vertices(s) : angle(s, v) = 1 /\ targets(s, v) # {}}

\* The moving point of the choice and the squared length of the half edge
\* chosen.
movingPoint == source(chosen.collapse, chosen.domain)

chosenLength == length2(fromHalfEdge(chosen.domain, chosen.collapse))

\* C24 as stated: the half edge chosen leaves a vertex of total angle 2 pi
\* for a different vertex; no candidate vertex has fewer outgoing half edges
\* than the moving point, and no candidate half edge at the moving point is
\* longer than the one chosen.
C24_FewestOutgoingLongest ==
  (chosen.called /\ chosen.collapse # 0) =>
    /\ movingPoint \in movable(chosen.domain)
    /\ chosen.collapse \in targets(chosen.domain, movingPoint)
    /\ \A v \in movable(chosen.domain) : Cardinality(movingPoint) <= Cardinality(v)
    /\ \A he \in targets(chosen.domain, movingPoint) :
         length2(fromHalfEdge(chosen.domain, he)) <= chosenLength

\* C24: a half edge is chosen when some vertex of total angle 2 pi has an
\* outgoing half edge to a different vertex; the half edge chosen is such a
\* half edge, and no candidate half edge at the moving point or at a
\* candidate vertex with no more outgoing half edges than the moving point
\* is shorter than the one chosen.
C24_ShortestOfNoMoreOutgoing ==
  chosen.called =>
    /\ chosen.collapse = 0 <=> movable(chosen.domain) = {}
    /\ chosen.collapse # 0 =>
         /\ movingPoint \in movable(chosen.domain)
         /\ chosen.collapse \in targets(chosen.domain, movingPoint)
         /\ \A v \in movable(chosen.domain) :
              Cardinality(v) <= Cardinality(movingPoint) =>
                \A he \in targets(chosen.domain, v) :
                  chosenLength <= length2(fromHalfEdge(chosen.domain, he))

\* The choice has been made on a surface with three vertices of total
\* angle 2 pi: the half edge chosen is shorter than another candidate at
\* the moving point, and another candidate vertex has fewer outgoing half
\* edges than the moving point.
C24_Witness ==
  /\ chosen.called
  /\ chosen.collapse # 0
  /\ Cardinality(movable(chosen.domain)) = 3
  /\ \E he \in targets(chosen.domain, movingPoint) :
       chosenLength < length2(fromHalfEdge(chosen.domain, he))
  /\ \E v \in movable(chosen.domain) : Cardinality(v) < Cardinality(movingPoint)

----------------------------------------------------------------------------
(* Properties of the trackers of a surface in a flip.                      *)

\* C25: a flip that succeeds has changed the permutations, then called the
\* flip callback of the tracked vectors once, then the flip callback of the
\* tracked approximations once, then checked the surface, in this order;
\* after it the vector of e is minus the sum of the vectors of the two other
\* sides of its face, and the approximation of every half edge is the
\* approximation of its vector.  A flip that is refused calls nothing.
C25_TrackersCalledOnceInOrder ==
  tracking.called =>
    /\ tracking.error = "ok" =>
         /\ tracking.calls = <<"flip", "updateAfterFlip", "updateApproximationAfterFlip", "check">>
         /\ nextInFace(tracking.surface, tracking.e) # nextInFace(tracking.before, tracking.e)
         /\ fromHalfEdge(tracking.surface, tracking.e) =
              Minus(Plus(fromHalfEdge(tracking.surface, nextInFace(tracking.surface, tracking.e)),
                         fromHalfEdge(tracking.surface, previousInFace(tracking.surface, tracking.e))))
         /\ \A h \in halfEdges(tracking.surface) :
              tracking.approximations[h] = Arb(fromHalfEdge(tracking.surface, h))
         /\ tracking.surface = flip(tracking.before, tracking.e).surface
    /\ ~convex(tracking.before, tracking.e, TRUE) =>
         /\ tracking.calls = <<>>
         /\ tracking.surface = tracking.before

\* An edge has been flipped whose vector, and so its approximation, has
\* changed.
C25_Witness ==
  /\ tracking.called
  /\ tracking.error = "ok"
  /\ fromHalfEdge(tracking.surface, tracking.e) # fromHalfEdge(tracking.before, tracking.e)
  /\ tracking.approximations[tracking.e] # approximationsOf(tracking.before)[tracking.e]

----------------------------------------------------------------------------
(* Properties of the edges that delaunay() flips.                          *)

\* C26: in a valid triangulation every edge that delaunay(Edge) classifies
\* as NON_DELAUNAY is strictly convex, and delaunay(), while it runs and
\* when it has returned, has not failed with the invalid-argument error of
\* flip.
C26_NonDelaunayIsConvex ==
  deformed # "null" =>
    /\ Valid(D) => \A e \in edges(D) : delaunay(D, e) = "NON_DELAUNAY" => convex(D, e, TRUE)
    /\ lastCall.op = "delaunay" =>
         /\ lastCall.error # "invalid_argument"
         /\ Valid(D)

\* delaunay() is in its loop, has flipped an edge, and the edge it looks at
\* next is NON_DELAUNAY.
C26_Witness ==
  /\ pc = "delaunay"
  /\ D # lastCall.before
  /\ delaunay(D, edge) = "NON_DELAUNAY"
  /\ convex(D, edge, TRUE)

----------------------------------------------------------------------------
(* Properties of the flips that operator+ makes.                           *)

\* The flips among the relations of the deformation returned.
flipsOf(relations) == {i \in 1..Len(relations) : relations[i].relation = "flip"}

----------------------------------------------------------------------------
(* Properties of Vertical::components().                                   *)

\* The components returned are not empty and they contain every half edge.
covering ==
  /\ \A i \in 1..Len(decomposed.components) : decomposed.components[i] # {}
  /\ UNION {decomposed.components[i] : i \in 1..Len(decomposed.components)} = halfEdges(S)

\* No two of the components returned have a half edge in common.
disjoint ==
  \A i \in 1..Len(decomposed.components) : \A j \in 1..Len(decomposed.components) :
    i # j => decomposed.components[i] \cap decomposed.components[j] = {}

\* C28: components() returns a partition of the half edges of the surface:
\* non-empty sets, no two of which have a half edge in common, that contain
\* every half edge, for every vertical and every order of the half edges.
C28_Partition ==
  decomposed.called => covering /\ disjoint

\* The half edges of the edge 1 of the torus are vertical and come first:
\* the half edge 1 is a component by itself and is in a later component
\* again.
C28_VerticalTwice ==
  /\ decomposed.called
  /\ S = Torus
  /\ decomposed.vertical = <<1, 0>>
  /\ decomposed.order = halfEdgesInOrder(S)
  /\ decomposed.components[1] = {1}
  /\ \E i \in 2..Len(decomposed.components) : 1 \in decomposed.components[i]

----------------------------------------------------------------------------
(* Properties of the equivalences of the factories.                        *)

\* C29: for the equivalence of every factory the name and the code of a
\* valid surface are computed without the error "not implemented", and the
\* walkers of a linear equivalence that were made have normalization
\* matrices of positive determinant for the next half edge at the vertex
\* and of negative determinant for the previous one.
C29_FactoriesUsable ==
  applied.called =>
    /\ applied.name.error # "not implemented"
    /\ applied.code.error # "not implemented"
    /\ \A i \in 1..Len(applied.code.walkers) :
         \E walker \in {applied.code.walkers[i]} :
           /\ walker.sgn = 1 =>
                /\ det2(walker.normalization) > 0
                /\ walker.normalization =
                     normalizeMatrix(applied.equivalence, applied.surface, walker.start,
                                     nextAtVertex(applied.surface, walker.start)).matrix
           /\ walker.sgn = -1 =>
                /\ det2(walker.normalization) < 0
                /\ walker.normalization =
                     normalizeMatrix(applied.equivalence, applied.surface, walker.start,
                                     previousAtVertex(applied.surface, walker.start)).matrix

\* The equivalence of Equivalence::orthogonal has no name and no code for
\* the square torus.
C29_OrthogonalNotImplemented ==
  /\ applied.called
  /\ applied.factory = "orthogonal"
  /\ applied.surface = Torus
  /\ applied.name.error = "not implemented"
  /\ applied.code.error = "not implemented"

----------------------------------------------------------------------------
(* Properties of isomorphism() for Delaunay cells.                         *)

\* The half edges of a surface whose edge is AMBIGUOUS in that surface.
ambiguous(s) == {he \in halfEdges(s) : delaunay(s, positive(Edge(he))) = "AMBIGUOUS"}

\* The half edges of `other` that the call did not ignore as images.
images == {he \in halfEdges(cells.other) : ~ignoreImage(cells.this, cells.other, cells.kind, he)}

\* C30: in isomorphism(other, DELAUNAY_CELLS, ...) a half edge of `other`
\* is skipped as a candidate image, and skipped in the walk around an image
\* cell, exactly when its edge is AMBIGUOUS in `other`: the images skipped
\* up to the one that was found, or all that were skipped when none was
\* found, are the half edges there that are ambiguous in `other`, and the
\* walk from an image that is not ambiguous in `other` goes where the walk
\* that asks `other` goes.
C30_IgnoredInOther ==
  (/\ cells.called
   /\ cells.kind = "DELAUNAY_CELLS"
   /\ cells.deformation.error = "ok"
   /\ Cardinality(halfEdges(cells.this)) = Cardinality(halfEdges(cells.other))) =>
    /\ cells.deformation.skipped =
         {he \in ambiguous(cells.other) :
            cells.deformation.found => index(he) < index(cells.deformation.image)}
    /\ \A he \in images \ ambiguous(cells.other) : \A sgn_ \in {1, -1} :
         nextInImageCellIgnoring(cells.this, cells.other, cells.kind, sgn_, he)
           = nextInImageCellIgnoring(cells.other, cells.other, cells.kind, sgn_, he)

\* The square torus, whose diagonal is its edge 3, has been compared by
\* its Delaunay cells with itself renamed so that the diagonal is the edge
\* 1, with no filter at work but that the matrix be the identity: the
\* sides 3 and -3 of the renamed square were skipped, its diagonal was not,
\* and no isomorphism was found, while there is one of the faces.
C30_IgnoredInReceiver ==
  /\ cells.called
  /\ cells.kind = "DELAUNAY_CELLS"
  /\ cells.this = Torus
  /\ cells.other = relabel(Torus, [x \in halfEdges(Torus) |-> sgn(x) * (((sgn(x) * x) % 3) + 1)])
  /\ cells.filterMatrix = "identity"
  /\ cells.rejected = {}
  /\ ambiguous(cells.other) = {1, -1}
  /\ cells.deformation.error = "ok"
  /\ cells.deformation.skipped = {3, -3}
  /\ ~cells.deformation.found
  /\ isomorphism(cells.this, cells.other, cells.filterMatrix, cells.rejected).found

============================================================================
